---- MODULE Spec2Model ----
(***************************************************************************)
(* Model of the tmvc editing core: the line-split text buffer              *)
(* (basic_simple_text_model), its change signals, the single selection     *)
(* model, the modification history and the std_edit_controller /           *)
(* std_selection_controller built on top of them.                          *)
(*                                                                         *)
(* Positions and columns are 0-based as in the source; TLA+ sequences are  *)
(* 1-based, so line l of the buffer is lines[l + 1].                       *)
(*                                                                         *)
(* The handlers of the source are sequential code that mutates several     *)
(* objects.  Each handler is translated to an operator from a state        *)
(* record (the fields are the variables below) to the state record after   *)
(* the handler returned; an action applies one handler to the current      *)
(* state.  A failed assertion / precondition (assert, vector::at,          *)
(* basic_string::substr) sets the field "failed": the program is aborted   *)
(* there and nothing happens afterwards.                                   *)
(***************************************************************************)
EXTENDS Integers, Sequences, FiniteSets, TLC

VARIABLES
    lines,                  \* basic_simple_text_model::lines_
    pos,                    \* single_selection_model::pos_
    anchor_pos,             \* single_selection_model::anchor_pos_
    move_pos_after_insert,  \* single_selection_model::move_pos_after_insert_
    undo_mods,              \* modification_history::undo_mods_ (back = last)
    redo_mods,              \* modification_history::redo_mods_ (back = last)
    undo_redo_count,        \* modification_history::undo_redo_count_
    enable_history,         \* std_edit_controller::enable_history_
    is_overwrite_mode,      \* std_edit_controller::is_overwrite_mode_
    expand_tabs,            \* std_edit_controller::expand_tabs_
    tab_size,               \* std_edit_controller::tab_size_
    up_down_saved_column,   \* std_selection_controller::up_down_saved_column_
    viewport_height,        \* std_paging_controller::viewport_height_
    failed,                 \* an assertion / precondition check has failed
    probes,                 \* observers are connected to the buffer's signals
    emitted,                \* what the observers saw during the last operation
    op,                     \* the last operation (its name)
    budget,                 \* how many more edits / moves this run may make
    seq                     \* bookkeeping of an edit... undo... redo... sequence

vars == << lines, pos, anchor_pos, move_pos_after_insert, undo_mods, redo_mods,
           undo_redo_count, enable_history, is_overwrite_mode, expand_tabs,
           tab_size, up_down_saved_column, viewport_height, failed, probes,
           emitted, op, budget, seq >>

(***************************************************************************)
(* Characters                                                              *)
(***************************************************************************)
NL == "\n"
CR == "\r"
TAB == "\t"
SPACE == " "
PS == "PS"      \* U+2029, the paragraph separator

\* std::iswspace
char_is_space(c) == c \in {SPACE, TAB, NL, CR}

\* std::iswalnum
char_is_alnum(c) == c \in {"a", "b", "x"}

\* every character of the model
AllChars == {SPACE, TAB, NL, CR, PS, "a", "b", "x", "{", "}"}

RECURSIVE Repeat(_, _)
Repeat(c, n) == IF n <= 0 THEN << >> ELSE << c >> \o Repeat(c, n - 1)

(***************************************************************************)
(* position.hpp / range.hpp                                                *)
(***************************************************************************)
Position(l, c) == [line |-> l, column |-> c]

Range(s, e) == [start |-> s, end |-> e]

PosLess(p, q) ==
    IF p.line = q.line THEN p.column < q.column ELSE p.line < q.line

PosLeq(p, q) == PosLess(p, q) \/ p = q

\* the assertion of range's constructor
range_ok(r) == PosLeq(r.start, r.end)

\* adjust_pos_after_insert without the offset of the position from the start
\* of the inserted range
adjust_pos_after_insert_to_end(p, r, move_eq_pos) ==
    IF PosLess(r.start, p) \/ (move_eq_pos /\ r.start = p)
    THEN Position(p.line + (r.end.line - r.start.line),
                  IF p.line = r.start.line THEN r.end.column ELSE p.column)
    ELSE p

\* adjust_pos_after_insert that keeps the column of a position on the line
\* of the insertion point
adjust_pos_after_insert_same_column(p, r, move_eq_pos) ==
    IF PosLess(r.start, p) \/ (move_eq_pos /\ r.start = p)
    THEN Position(p.line + (r.end.line - r.start.line), p.column)
    ELSE p

adjust_pos_after_insert(p, r, move_eq_pos) ==
    IF PosLess(r.start, p) \/ (move_eq_pos /\ r.start = p)
    THEN Position(p.line + (r.end.line - r.start.line),
                  IF p.line = r.start.line
                  THEN r.end.column + (p.column - r.start.column)
                  ELSE p.column)
    ELSE p

\* adjust_pos_after_erase without the branch for a position inside the range
adjust_pos_after_erase_outside(p, r) ==
    IF PosLess(r.end, p)
    THEN IF r.end.line = p.line
         THEN Position(r.start.line, r.start.column + p.column - r.end.column)
         ELSE Position(p.line - (r.end.line - r.start.line), p.column)
    ELSE p

\* adjust_pos_after_erase that moves a position inside the range to the end
\* of the range
adjust_pos_after_erase_to_range_end(p, r) ==
    IF PosLess(r.end, p)
    THEN IF r.end.line = p.line
         THEN Position(r.start.line, r.start.column + p.column - r.end.column)
         ELSE Position(p.line - (r.end.line - r.start.line), p.column)
    ELSE IF PosLess(r.start, p) THEN r.end ELSE p

adjust_pos_after_erase(p, r) ==
    IF PosLess(r.end, p)
    THEN IF r.end.line = p.line
         THEN Position(r.start.line, r.start.column + p.column - r.end.column)
         ELSE Position(p.line - (r.end.line - r.start.line), p.column)
    ELSE IF PosLess(r.start, p) THEN r.start ELSE p

\* adjust_range_after_insert / adjust_range_after_erase: range_test.cpp calls
\* them, range.hpp does not hold them; they apply the rule for a position to
\* both ends of the range
adjust_range_after_insert(rng, r) ==
    Range(adjust_pos_after_insert(rng.start, r, TRUE),
          adjust_pos_after_insert(rng.end, r, TRUE))

adjust_range_after_erase(rng, r) ==
    Range(adjust_pos_after_erase(rng.start, r),
          adjust_pos_after_erase(rng.end, r))

\* impl::selected_range
selected_range_of(a_pos, p) ==
    IF PosLeq(a_pos, p) THEN Range(a_pos, p) ELSE Range(p, a_pos)

(***************************************************************************)
(* text_model.hpp: free functions over a buffer (a sequence of lines)      *)
(***************************************************************************)
lines_size(ls) == Len(ls)

line_size(ls, l) == Len(ls[l + 1])

line_str(ls, l) == ls[l + 1]

pos_is_valid(ls, p) ==
    /\ p.line >= 0
    /\ p.column >= 0
    /\ p.line < Len(ls)
    /\ p.column <= Len(ls[p.line + 1])

\* the assertions of basic_simple_text_model::char_at
char_at_ok(ls, p) ==
    /\ p.line >= 0
    /\ p.column >= 0
    /\ p.line < Len(ls)
    /\ p.column < Len(ls[p.line + 1])

char_at(ls, p) == ls[p.line + 1][p.column + 1]

begin_pos == Position(0, 0)

end_pos(ls) == Position(Len(ls) - 1, Len(ls[Len(ls)]))

\* the assertions of next_pos
next_pos_ok(ls, p) ==
    /\ pos_is_valid(ls, p)
    /\ (Len(ls[p.line + 1]) > p.column \/ p.line + 1 < Len(ls))

next_pos(ls, p) ==
    IF Len(ls[p.line + 1]) > p.column
    THEN Position(p.line, p.column + 1)
    ELSE Position(p.line + 1, 0)

\* the assertions of prev_pos
prev_pos_ok(ls, p) == pos_is_valid(ls, p) /\ (p.column > 0 \/ p.line > 0)

prev_pos(ls, p) ==
    IF p.column > 0
    THEN Position(p.line, p.column - 1)
    ELSE Position(p.line - 1, Len(ls[p.line]))

\* characters_str / characters_vector: the characters of a range, a line
\* break read as '\n' (text_model_characters_const_iterator::dereference)
RECURSIVE characters_str(_, _)
characters_str(ls, r) ==
    IF r.start = r.end
    THEN << >>
    ELSE << (IF r.start.column = Len(ls[r.start.line + 1])
             THEN NL
             ELSE char_at(ls, r.start)) >>
         \o characters_str(ls, Range(next_pos(ls, r.start), r.end))

\* what characters_str requires: both ends valid and start <= end
characters_ok(ls, r) ==
    pos_is_valid(ls, r.start) /\ pos_is_valid(ls, r.end) /\ range_ok(r)

\* string(mdl): the whole text
string(ls) == characters_str(ls, Range(begin_pos, end_pos(ls)))

\* every valid position of a buffer, and every valid range
Positions(ls) ==
    UNION { { Position(l - 1, c) : c \in 0 .. Len(ls[l]) } : l \in 1 .. Len(ls) }

Ranges(ls) ==
    { Range(s, e) : s \in Positions(ls), e \in Positions(ls) } \cap
    { r \in [start : Positions(ls), end : Positions(ls)] : range_ok(r) }

(***************************************************************************)
(* impl/utils.hpp                                                          *)
(***************************************************************************)
RECURSIVE split_rec(_, _, _)
split_rec(chars, done, new_line) ==
    IF chars = << >>
    THEN Append(done, new_line)
    ELSE LET ch == Head(chars) IN
         IF ch = CR
         THEN split_rec(Tail(chars), done, new_line)
         ELSE IF ch = NL \/ ch = PS
         THEN split_rec(Tail(chars), Append(done, new_line), << >>)
         ELSE split_rec(Tail(chars), done, Append(new_line, ch))

\* a split that makes no line of no characters
split_chars_to_lines_or_none(chars) ==
    IF chars = << >> THEN << >> ELSE split_rec(chars, << >>, << >>)

split_chars_to_lines(chars) ==
    IF chars = << >> THEN << << >> >> ELSE split_rec(chars, << >>, << >>)

(***************************************************************************)
(* Signals.  An observer connected to a signal is called synchronously by  *)
(* the emission; with probes connected, every emission is recorded with    *)
(* its argument and the text the observer reads from the buffer.           *)
(***************************************************************************)
NoRange == Range(begin_pos, begin_pos)

Emit(s, sig, r) ==
    IF s.probes
    THEN [s EXCEPT !.emitted =
              Append(@, [sig |-> sig, range |-> r, text |-> s.lines,
                         saved_column |-> s.up_down_saved_column])]
    ELSE s

Fail(s) == [s EXCEPT !.failed = TRUE]

(***************************************************************************)
(* single_selection_model.hpp                                              *)
(***************************************************************************)
RECURSIVE call(_, _, _)

\* a set_pos_and_anchor that notifies whether or not anything changed
set_pos_and_anchor_notifying(s, a_pos, p) ==
    IF s.failed THEN s
    ELSE IF ~(pos_is_valid(s.lines, p) /\ pos_is_valid(s.lines, a_pos))
    THEN Fail(s)
    ELSE Emit([s EXCEPT !.pos = p, !.anchor_pos = a_pos], "changed", NoRange)

set_pos_and_anchor(s, a_pos, p) ==
    IF s.failed THEN s
    ELSE IF ~(pos_is_valid(s.lines, p) /\ pos_is_valid(s.lines, a_pos))
    THEN Fail(s)
    ELSE IF p = s.pos /\ a_pos = s.anchor_pos
    THEN s
    ELSE Emit([s EXCEPT !.pos = p, !.anchor_pos = a_pos], "changed", NoRange)

\* a selection model that moves a cursor at the insertion point whatever
\* move_pos_after_insert says
on_after_inserted_moving(s, r) ==
    LET p == s.pos
        a == s.anchor_pos
        moved == PosLess(r.start, p) \/ r.start = p
        new_pos ==
            IF moved
            THEN Position(p.line + (r.end.line - r.start.line),
                          IF p.line = r.start.line
                          THEN r.end.column + (p.column - r.start.column)
                          ELSE p.column)
            ELSE p
        new_anchor_pos ==
            IF moved
            THEN IF PosLess(a, r.start)
                 THEN new_pos
                 ELSE Position(a.line + (r.end.line - r.start.line),
                               IF a.line = r.start.line
                               THEN r.end.column + (a.column - r.start.column)
                               ELSE a.column)
            ELSE IF PosLess(r.start, a) THEN new_pos ELSE a
    IN  call("set_pos_and_anchor", s, << new_anchor_pos, new_pos >>)

on_after_inserted(s, r) ==
    LET p == s.pos
        a == s.anchor_pos
        moved == PosLess(r.start, p) \/ (r.start = p /\ s.move_pos_after_insert)
        new_pos ==
            IF moved
            THEN Position(p.line + (r.end.line - r.start.line),
                          IF p.line = r.start.line
                          THEN r.end.column + (p.column - r.start.column)
                          ELSE p.column)
            ELSE p
        new_anchor_pos ==
            IF moved
            THEN IF PosLess(a, r.start)
                 THEN new_pos
                 ELSE Position(a.line + (r.end.line - r.start.line),
                               IF a.line = r.start.line
                               THEN r.end.column + (a.column - r.start.column)
                               ELSE a.column)
            ELSE IF PosLess(r.start, a) THEN new_pos ELSE a
    IN  call("set_pos_and_anchor", s, << new_anchor_pos, new_pos >>)

\* a selection model that leaves a cursor inside the erased range on the
\* line it was on, at the column where the range started
on_after_erased_same_line(s, r) ==
    LET p == s.pos
        a == s.anchor_pos
        after == PosLess(r.end, p)
        inside == ~after /\ PosLess(r.start, p)
        new_pos ==
            IF after
            THEN IF r.end.line = p.line
                 THEN Position(r.start.line,
                               r.start.column + p.column - r.end.column)
                 ELSE Position(p.line - (r.end.line - r.start.line), p.column)
            ELSE IF inside
            THEN Position(IF p.line < Len(s.lines) THEN p.line
                          ELSE r.start.line, 0)
            ELSE p
        new_anchor_pos ==
            IF after
            THEN IF PosLess(a, r.end)
                 THEN new_pos
                 ELSE IF r.end.line = a.line
                      THEN Position(r.start.line,
                                    r.start.column + a.column - r.end.column)
                      ELSE Position(a.line - (r.end.line - r.start.line),
                                    a.column)
            ELSE IF inside
            THEN new_pos
            ELSE IF PosLess(r.start, a) THEN new_pos ELSE a
    IN  call("set_pos_and_anchor", s, << new_anchor_pos, new_pos >>)

\* a selection model that does not follow an erase
on_after_erased_unadjusted(s, r) == s

on_after_erased(s, r) ==
    LET p == s.pos
        a == s.anchor_pos
        after == PosLess(r.end, p)
        inside == ~after /\ PosLess(r.start, p)
        new_pos ==
            IF after
            THEN IF r.end.line = p.line
                 THEN Position(r.start.line,
                               r.start.column + p.column - r.end.column)
                 ELSE Position(p.line - (r.end.line - r.start.line), p.column)
            ELSE IF inside THEN r.start ELSE p
        new_anchor_pos ==
            IF after
            THEN IF PosLess(a, r.end)
                 THEN new_pos
                 ELSE IF r.end.line = a.line
                      THEN Position(r.start.line,
                                    r.start.column + a.column - r.end.column)
                      ELSE Position(a.line - (r.end.line - r.start.line),
                                    a.column)
            ELSE IF inside
            THEN r.start
            ELSE IF PosLess(r.start, a) THEN new_pos ELSE a
    IN  call("set_pos_and_anchor", s, << new_anchor_pos, new_pos >>)

(***************************************************************************)
(* simple_single_selection_model.hpp                                       *)
(***************************************************************************)
\* the selections_ both selection models rebuild in set_pos_and_anchor
selections(s) ==
    IF PosLess(s.pos, s.anchor_pos) THEN << Range(s.pos, s.anchor_pos) >>
    ELSE IF PosLess(s.anchor_pos, s.pos) THEN << Range(s.anchor_pos, s.pos) >>
    ELSE << >>

simple_set_pos_and_anchor(s, a_pos, p) ==
    IF s.failed THEN s
    ELSE IF ~(pos_is_valid(s.lines, p) /\ pos_is_valid(s.lines, a_pos))
    THEN Fail(s)
    ELSE IF p = s.pos /\ a_pos = s.anchor_pos
    THEN s
    ELSE Emit([s EXCEPT !.pos = p, !.anchor_pos = a_pos], "changed", NoRange)

simple_on_after_inserted(s, r) ==
    LET moved == PosLess(r.start, s.pos)
                 \/ (r.start = s.pos /\ s.move_pos_after_insert)
        new_pos ==
            IF moved
            THEN adjust_pos_after_insert(s.pos, r, s.move_pos_after_insert)
            ELSE s.pos
        new_anchor_pos ==
            IF moved
            THEN IF PosLess(s.anchor_pos, r.start) THEN new_pos
                 ELSE adjust_pos_after_insert(s.anchor_pos, r, TRUE)
            ELSE IF PosLess(r.start, s.anchor_pos) THEN new_pos
                 ELSE s.anchor_pos
    IN  simple_set_pos_and_anchor(s, new_anchor_pos, new_pos)

\* an on_after_erased that adjusts the anchor on its own wherever it is
simple_on_after_erased_adjusting(s, r) ==
    LET after == PosLess(r.end, s.pos)
        inside == ~after /\ PosLess(r.start, s.pos)
        new_pos ==
            IF after THEN adjust_pos_after_erase(s.pos, r)
            ELSE IF inside THEN r.start
            ELSE s.pos
        new_anchor_pos ==
            IF after THEN adjust_pos_after_erase(s.anchor_pos, r)
            ELSE IF inside THEN r.start
            ELSE IF PosLess(r.start, s.anchor_pos) THEN new_pos
                 ELSE s.anchor_pos
    IN  simple_set_pos_and_anchor(s, new_anchor_pos, new_pos)

simple_on_after_erased(s, r) ==
    LET after == PosLess(r.end, s.pos)
        inside == ~after /\ PosLess(r.start, s.pos)
        new_pos ==
            IF after THEN adjust_pos_after_erase(s.pos, r)
            ELSE IF inside THEN r.start
            ELSE s.pos
        new_anchor_pos ==
            IF after
            THEN IF PosLess(s.anchor_pos, r.end) THEN new_pos
                 ELSE adjust_pos_after_erase(s.anchor_pos, r)
            ELSE IF inside THEN r.start
            ELSE IF PosLess(r.start, s.anchor_pos) THEN new_pos
                 ELSE s.anchor_pos
    IN  simple_set_pos_and_anchor(s, new_anchor_pos, new_pos)

(***************************************************************************)
(* std_selection_controller: its observers of the buffer                   *)
(***************************************************************************)
reset_up_down_saved_column(s) == [s EXCEPT !.up_down_saved_column = 0]

(***************************************************************************)
(* simple_text_model.ipp                                                   *)
(***************************************************************************)
\* the range insert() computes and returns
insert_range(p, chars) ==
    LET new_lines == split_chars_to_lines(chars)
        n == Len(new_lines)
    IN  Range(p, Position(p.line + n - 1,
                          IF n = 1
                          THEN p.column + Len(new_lines[n])
                          ELSE Len(new_lines[n])))

\* the range insert() returns: for no characters it is empty, at p
insert_result(p, chars) ==
    IF chars = << >> THEN Range(p, p) ELSE insert_range(p, chars)

\* the lines after insert() has spliced chars in at p
insert_lines(ls, p, chars) ==
    LET new_lines == split_chars_to_lines(chars)
        n == Len(new_lines)
        first == ls[p.line + 1]
        head == SubSeq(first, 1, p.column)
        old_first_line_end == SubSeq(first, p.column + 1, Len(first))
        mid == IF n = 1
               THEN << head \o new_lines[1] \o old_first_line_end >>
               ELSE << head \o new_lines[1] >>
                    \o SubSeq(new_lines, 2, n - 1)
                    \o << new_lines[n] \o old_first_line_end >>
    IN  SubSeq(ls, 1, p.line) \o mid \o SubSeq(ls, p.line + 2, Len(ls))

\* an erase that drops the rest of the last line of r as well
erase_lines_truncating(ls, r) ==
    LET first == ls[r.start.line + 1]
        merged == SubSeq(first, 1, r.start.column)
    IN  SubSeq(ls, 1, r.start.line) \o << merged >>
        \o SubSeq(ls, r.end.line + 2, Len(ls))

\* the lines after erase() has removed r
erase_lines(ls, r) ==
    LET first == ls[r.start.line + 1]
        last == ls[r.end.line + 1]
        merged == SubSeq(first, 1, r.start.column)
                  \o SubSeq(last, r.end.column + 1, Len(last))
    IN  SubSeq(ls, 1, r.start.line) \o << merged >>
        \o SubSeq(ls, r.end.line + 2, Len(ls))

\* the lines after replace() has overwritten at p
replace_lines(ls, p, chars) ==
    LET l == ls[p.line + 1]
    IN  [ls EXCEPT ![p.line + 1] =
            SubSeq(l, 1, p.column) \o chars
            \o SubSeq(l, p.column + Len(chars) + 1, Len(l))]

\* an insert that tells its after_inserted subscribers before it has
\* changed the lines
text_insert_notify_early(s, p, chars) ==
    IF s.failed \/ chars = << >> THEN s
    ELSE IF ~pos_is_valid(s.lines, p) THEN Fail(s)
    ELSE LET ins_range == insert_range(p, chars)
             s1 == Emit(s, "before_inserted", ins_range)
             s2 == reset_up_down_saved_column(Emit(s1, "after_inserted", ins_range))
             s3 == [s2 EXCEPT !.lines = insert_lines(s.lines, p, chars)]
         IN  call("on_after_inserted", Emit(s3, "after_inserted_2", ins_range),
                  << ins_range >>)

\* an insert without the early return for no characters
text_insert_always(s, p, chars) ==
    IF s.failed THEN s
    ELSE IF ~pos_is_valid(s.lines, p) THEN Fail(s)
    ELSE LET ins_range == insert_range(p, chars)
             s1 == Emit(s, "before_inserted", ins_range)
             s2 == [s1 EXCEPT !.lines = insert_lines(s.lines, p, chars)]
             s3 == reset_up_down_saved_column(Emit(s2, "after_inserted", ins_range))
         IN  call("on_after_inserted", Emit(s3, "after_inserted_2", ins_range),
                  << ins_range >>)

\* basic_simple_text_model::insert, with the observers it calls: the
\* controller on after_inserted, the selection model on after_inserted_2
text_insert(s, p, chars) ==
    IF s.failed \/ chars = << >> THEN s
    ELSE IF ~pos_is_valid(s.lines, p) THEN Fail(s)
    ELSE LET ins_range == insert_range(p, chars)
             s1 == Emit(s, "before_inserted", ins_range)
             s2 == [s1 EXCEPT !.lines = insert_lines(s.lines, p, chars)]
             s3 == reset_up_down_saved_column(Emit(s2, "after_inserted", ins_range))
         IN  call("on_after_inserted", Emit(s3, "after_inserted_2", ins_range),
                  << ins_range >>)

\* basic_simple_text_model::erase, with the observers it calls
text_erase(s, r) ==
    IF s.failed THEN s
    ELSE IF ~(range_ok(r) /\ pos_is_valid(s.lines, r.start)
                          /\ pos_is_valid(s.lines, r.end))
    THEN Fail(s)
    ELSE IF r.start = r.end THEN s
    ELSE LET s1 == Emit(s, "before_erased", r)
             s2 == [s1 EXCEPT !.lines = erase_lines(s.lines, r)]
             s3 == reset_up_down_saved_column(Emit(s2, "after_erased", r))
         IN  call("on_after_erased", Emit(s3, "after_erased_2", r), << r >>)

\* basic_simple_text_model::replace, with the observer it calls
text_replace(s, p, chars) ==
    IF s.failed THEN s
    ELSE IF ~(/\ p.line < Len(s.lines)
              /\ Len(chars) <= Len(s.lines[p.line + 1])
              /\ Len(s.lines[p.line + 1]) - Len(chars) >= p.column)
    THEN Fail(s)
    ELSE LET replace_range == Range(p, Position(p.line, p.column + Len(chars)))
             s1 == Emit(s, "before_replaced", replace_range)
             s2 == [s1 EXCEPT !.lines = replace_lines(s.lines, p, chars)]
         IN  reset_up_down_saved_column(Emit(s2, "after_replaced", replace_range))

\* basic_simple_text_model::reset: no signal is sent
text_reset(s, chars) ==
    IF s.failed THEN s
    ELSE [s EXCEPT !.lines = split_chars_to_lines(chars)]

\* editable_text_model.hpp: clear(mdl)
clear(s) == call("text_erase", s, << Range(begin_pos, end_pos(s.lines)) >>)

\* editable_text_model.hpp: assign(mdl, t)
assign(s, t) == call("text_insert", clear(s), << begin_pos, t >>)

(***************************************************************************)
(* modification.hpp: modifications and the modification history            *)
(***************************************************************************)
UndoLimit == 1000

INT_MAX == 2147483647

insert_modification(r, chars) ==
    [kind |-> "insert", range |-> r, chars |-> chars,
     old_chars |-> << >>, mods |-> << >>]

erase_modification(r, chars) ==
    [kind |-> "erase", range |-> r, chars |-> chars,
     old_chars |-> << >>, mods |-> << >>]

\* chars holds new_chars
replace_modification(r, old_chars, new_chars) ==
    [kind |-> "replace", range |-> r, chars |-> new_chars,
     old_chars |-> old_chars, mods |-> << >>]

modification_group(mods) ==
    [kind |-> "group", range |-> NoRange, chars |-> << >>,
     old_chars |-> << >>, mods |-> mods]

can_undo(s) == s.undo_mods # << >>

can_redo(s) == s.redo_mods # << >>

changed(s) == s.undo_redo_count # 0

EmitIf(s, cond, sig) == IF cond THEN Emit(s, sig, NoRange) ELSE s

\* add() that never drops the oldest entry
history_add_unbounded(s, mod) ==
    IF s.failed THEN s
    ELSE LET undo_changed == s.undo_mods = << >>
             ch_changed == ~changed(s)
             redo_changed == s.redo_mods # << >>
             s1 == [s EXCEPT
                      !.undo_mods = Append(s.undo_mods, mod),
                      !.redo_mods = << >>,
                      !.undo_redo_count =
                          IF @ = INT_MAX THEN INT_MAX
                          ELSE IF @ < 0 THEN INT_MAX
                          ELSE @ + 1]
         IN  EmitIf(EmitIf(EmitIf(s1, undo_changed, "can_undo_changed"),
                           redo_changed, "can_redo_changed"),
                    ch_changed, "changed_changed")

\* add() that keeps counting below the checkpoint instead of giving it up
history_add_counting(s, mod) ==
    IF s.failed THEN s
    ELSE LET undo_changed == s.undo_mods = << >>
             ch_changed == ~changed(s)
             pushed == Append(s.undo_mods, mod)
             redo_changed == s.redo_mods # << >>
             s1 == [s EXCEPT
                      !.undo_mods = IF Len(pushed) > UndoLimit
                                    THEN Tail(pushed) ELSE pushed,
                      !.redo_mods = << >>,
                      !.undo_redo_count =
                          IF @ = INT_MAX THEN INT_MAX ELSE @ + 1]
         IN  EmitIf(EmitIf(EmitIf(s1, undo_changed, "can_undo_changed"),
                           redo_changed, "can_redo_changed"),
                    ch_changed, "changed_changed")

history_add(s, mod) ==
    IF s.failed THEN s
    ELSE LET undo_changed == s.undo_mods = << >>
             ch_changed == ~changed(s)
             pushed == Append(s.undo_mods, mod)
             redo_changed == s.redo_mods # << >>
             s1 == [s EXCEPT
                      !.undo_mods = IF Len(pushed) > UndoLimit
                                    THEN Tail(pushed) ELSE pushed,
                      !.redo_mods = << >>,
                      !.undo_redo_count =
                          IF @ = INT_MAX THEN INT_MAX
                          ELSE IF @ < 0 THEN INT_MAX
                          ELSE @ + 1]
         IN  EmitIf(EmitIf(EmitIf(s1, undo_changed, "can_undo_changed"),
                           redo_changed, "can_redo_changed"),
                    ch_changed, "changed_changed")

history_undo(s) ==
    IF s.failed THEN s
    ELSE IF ~can_undo(s) THEN Fail(s)
    ELSE LET redo_was_empty == s.redo_mods = << >>
             old_changed == changed(s)
             s1 == [s EXCEPT
                      !.undo_mods = SubSeq(@, 1, Len(@) - 1),
                      !.redo_mods = Append(@, s.undo_mods[Len(s.undo_mods)]),
                      !.undo_redo_count = IF @ # INT_MAX THEN @ - 1 ELSE @]
         IN  EmitIf(EmitIf(EmitIf(s1, s1.undo_mods = << >>, "can_undo_changed"),
                           redo_was_empty, "can_redo_changed"),
                    old_changed # changed(s1), "changed_changed")

\* a redo() that leaves the counter where undo() put it
history_redo_uncounted(s) ==
    IF s.failed THEN s
    ELSE IF ~can_redo(s) THEN Fail(s)
    ELSE LET undo_was_empty == s.undo_mods = << >>
             old_changed == changed(s)
             s1 == [s EXCEPT
                      !.redo_mods = SubSeq(@, 1, Len(@) - 1),
                      !.undo_mods = Append(@, s.redo_mods[Len(s.redo_mods)])]
         IN  EmitIf(EmitIf(EmitIf(s1, undo_was_empty, "can_undo_changed"),
                           s1.redo_mods = << >>, "can_redo_changed"),
                    old_changed # changed(s1), "changed_changed")

history_redo(s) ==
    IF s.failed THEN s
    ELSE IF ~can_redo(s) THEN Fail(s)
    ELSE LET undo_was_empty == s.undo_mods = << >>
             old_changed == changed(s)
             s1 == [s EXCEPT
                      !.redo_mods = SubSeq(@, 1, Len(@) - 1),
                      !.undo_mods = Append(@, s.redo_mods[Len(s.redo_mods)]),
                      !.undo_redo_count = IF @ # INT_MAX THEN @ + 1 ELSE @]
         IN  EmitIf(EmitIf(EmitIf(s1, undo_was_empty, "can_undo_changed"),
                           s1.redo_mods = << >>, "can_redo_changed"),
                    old_changed # changed(s1), "changed_changed")

clear_changed(s) == [s EXCEPT !.undo_redo_count = 0]

history_clear(s) ==
    IF s.failed THEN s
    ELSE Emit(Emit(call("clear_changed", [s EXCEPT !.undo_mods = << >>,
                                           !.redo_mods = << >>], << >>),
                   "can_undo_changed", NoRange),
              "can_redo_changed", NoRange)

\* transaction: s.group is the group_ of the transaction in scope
transaction_insert_characters(s, p, chars) ==
    IF s.failed \/ chars = << >> THEN s
    ELSE LET s1 == call("text_insert", s, << p, chars >>)
         IN  IF s1.failed THEN s1
             ELSE [s1 EXCEPT !.group =
                      Append(@, insert_modification(insert_range(p, chars), chars))]

transaction_erase_characters(s, r) ==
    IF s.failed THEN s
    ELSE IF ~range_ok(r) THEN Fail(s)
    ELSE IF r.start = r.end THEN s
    ELSE IF ~characters_ok(s.lines, r) THEN Fail(s)
    ELSE LET chars == characters_str(s.lines, r)
             s1 == call("text_erase", s, << r >>)
         IN  IF s1.failed THEN s1
             ELSE [s1 EXCEPT !.group = Append(@, erase_modification(r, chars))]

\* ~transaction that commits its group even when the group is empty
transaction_end_always(s) ==
    IF s.failed THEN s
    ELSE call("history_add", [s EXCEPT !.group = << >>],
              << modification_group(s.group) >>)

\* ~transaction
transaction_end(s) ==
    IF s.failed THEN s
    ELSE IF s.group # << >>
    THEN call("history_add", [s EXCEPT !.group = << >>],
              << modification_group(s.group) >>)
    ELSE s

(***************************************************************************)
(* std_selection_controller.hpp (with single_selection_controller_base)    *)
(***************************************************************************)
selected_range(s) == selected_range_of(s.anchor_pos, s.pos)

\* single_selection_controller_base::select_text_impl
select_text_impl(s, anchor_p, p) ==
    IF s.failed THEN s
    ELSE IF s.pos # p \/ s.anchor_pos # anchor_p
    THEN call("set_pos_and_anchor", s, << anchor_p, p >>)
    ELSE s

select_text(s, anchor_p, p, reset_up_down) ==
    LET s1 == call("select_text_impl", s, << anchor_p, p >>)
    IN  IF s1.failed \/ ~reset_up_down THEN s1
        ELSE reset_up_down_saved_column(s1)

set_pos_move_anchor(s, p) == call("select_text", s, << p, p, TRUE >>)

set_pos_keep_anchor(s, p) == call("select_text", s, << s.anchor_pos, p, TRUE >>)

\* set_pos_keep_anchor or set_pos_move_anchor, as the callers choose
set_pos(s, p, keep_anchor) ==
    IF keep_anchor THEN call("set_pos_keep_anchor", s,
                             << p >>) ELSE call("set_pos_move_anchor", s,
                                                << p >>)

\* get_pos_forward / get_pos_backward: p is returned at the end / beginning
get_pos_forward_ok(ls, p) == p = end_pos(ls) \/ next_pos_ok(ls, p)

get_pos_forward(ls, p) == IF p = end_pos(ls) THEN p ELSE next_pos(ls, p)

get_pos_backward_ok(ls, p) == p = begin_pos \/ prev_pos_ok(ls, p)

get_pos_backward(ls, p) == IF p = begin_pos THEN p ELSE prev_pos(ls, p)

\* the first index >= i of cs at which the character is not in cls
\* (Len(cs) + 1: the end iterator)
RECURSIVE skip_while(_, _, _)
skip_while(cs, i, cls) ==
    IF i > Len(cs) \/ cs[i] \notin cls THEN i ELSE skip_while(cs, i + 1, cls)

\* a calc_next_word_pos_in_line that does not skip the white space after the
\* word it went over
calc_next_word_pos_in_line_no_skip(cs, is_next) ==
    LET Spaces == { c \in AllChars : char_is_space(c) }
        Alnums == { c \in AllChars : char_is_alnum(c) }
        Puncts == { c \in AllChars : ~char_is_alnum(c) /\ ~char_is_space(c) }
        first_space == char_is_space(cs[1])
        it1 == IF first_space THEN skip_while(cs, 1, Spaces) ELSE 1
    IN  IF first_space /\ is_next THEN it1 - 1
        ELSE IF it1 > Len(cs) THEN -1
        ELSE LET it2 == IF char_is_alnum(cs[it1])
                        THEN skip_while(cs, it1, Alnums)
                        ELSE skip_while(cs, it1, Puncts)
             IN  it2 - 1

\* calc_next_word_pos_in_line over the characters cs of the positions range
\* (first to last in iteration order).  The result is the offset, or -1
\* when the iterator is dereferenced at the end of the range: for the
\* reversed range of move_prev_word that is prev_pos() of column 0, a
\* position of the line before (char_at fails) or of no line at all.
calc_next_word_pos_in_line(cs, is_next) ==
    LET Spaces == { c \in AllChars : char_is_space(c) }
        Alnums == { c \in AllChars : char_is_alnum(c) }
        Puncts == { c \in AllChars : ~char_is_alnum(c) /\ ~char_is_space(c) }
        first_space == char_is_space(cs[1])
        it1 == IF first_space THEN skip_while(cs, 1, Spaces) ELSE 1
    IN  IF first_space /\ is_next THEN it1 - 1
        ELSE IF it1 > Len(cs) THEN -1
        ELSE LET it2 == IF char_is_alnum(cs[it1])
                        THEN skip_while(cs, it1, Alnums)
                        ELSE skip_while(cs, it1, Puncts)
                 it3 == IF is_next THEN skip_while(cs, it2, Spaces) ELSE it2
             IN  it3 - 1

\* the characters of line l from column c on, and those before column c
\* in reverse order
chars_from(ls, l, c) == SubSeq(ls[l + 1], c + 1, Len(ls[l + 1]))

chars_before_reversed(ls, l, c) == [i \in 1 .. c |-> ls[l + 1][c - i + 1]]

move_next_word(s, keep_anchor) ==
    IF s.failed THEN s
    ELSE LET p == s.pos IN
         IF p.column = line_size(s.lines, p.line)
         THEN IF p.line # lines_size(s.lines) - 1
              THEN call("set_pos", s,
                        << Position(p.line + 1, 0), keep_anchor >>)
              ELSE s
         ELSE LET col == calc_next_word_pos_in_line(
                             chars_from(s.lines, p.line, p.column), TRUE)
              IN  IF col < 0 \/ col + p.column > line_size(s.lines, p.line)
                  THEN Fail(s)
                  ELSE call("set_pos", s,
                            << Position(p.line, col + p.column), keep_anchor >>)

move_prev_word(s, keep_anchor) ==
    IF s.failed THEN s
    ELSE LET p == s.pos IN
         IF p.column = 0
         THEN IF p.line # 0
              THEN call("set_pos", s,
                        << Position(p.line - 1, line_size(s.lines, p.line - 1)), keep_anchor >>)
              ELSE s
         ELSE LET offs == calc_next_word_pos_in_line(
                              chars_before_reversed(s.lines, p.line, p.column), FALSE)
              IN  IF offs < 0 \/ offs > p.column
                  THEN Fail(s)
                  ELSE call("set_pos", s,
                            << Position(p.line, p.column - offs), keep_anchor >>)

do_left(s, ctrl, shift) ==
    IF s.failed THEN s
    ELSE IF ctrl THEN call("move_prev_word", s, << shift >>)
    ELSE IF ~get_pos_backward_ok(s.lines, s.pos) THEN Fail(s)
    ELSE call("set_pos", s, << get_pos_backward(s.lines, s.pos), shift >>)

do_right(s, ctrl, shift) ==
    IF s.failed THEN s
    ELSE IF ctrl THEN call("move_next_word", s, << shift >>)
    ELSE IF ~get_pos_forward_ok(s.lines, s.pos) THEN Fail(s)
    ELSE call("set_pos", s, << get_pos_forward(s.lines, s.pos), shift >>)

\* an up / down move that lets select_text reset the saved column
up_down_to_resetting(s, new_line, shift) ==
    LET s1 == IF s.up_down_saved_column = 0
              THEN [s EXCEPT !.up_down_saved_column = s.pos.column]
              ELSE s
        col == IF s1.up_down_saved_column # 0
               THEN s1.up_down_saved_column
               ELSE s.pos.column
        new_pos == Position(new_line,
                            IF line_size(s.lines, new_line) < col
                            THEN line_size(s.lines, new_line)
                            ELSE col)
    IN  IF shift
        THEN call("select_text", s1, << s1.anchor_pos, new_pos, TRUE >>)
        ELSE call("select_text", s1, << new_pos, new_pos, TRUE >>)

\* the common part of do_up and do_down: move to new_line keeping the
\* column saved at the start of the run of up/down moves
up_down_to(s, new_line, shift) ==
    LET s1 == IF s.up_down_saved_column = 0
              THEN [s EXCEPT !.up_down_saved_column = s.pos.column]
              ELSE s
        col == IF s1.up_down_saved_column # 0
               THEN s1.up_down_saved_column
               ELSE s.pos.column
        new_pos == Position(new_line,
                            IF line_size(s.lines, new_line) < col
                            THEN line_size(s.lines, new_line)
                            ELSE col)
    IN  IF shift
        THEN call("select_text", s1, << s1.anchor_pos, new_pos, FALSE >>)
        ELSE call("select_text", s1, << new_pos, new_pos, FALSE >>)

do_up(s, ctrl, shift) ==
    IF s.failed \/ s.pos.line = 0 THEN s
    ELSE call("up_down_to", s, << s.pos.line - 1, shift >>)

do_down(s, ctrl, shift) ==
    IF s.failed \/ s.pos.line = lines_size(s.lines) - 1 THEN s
    ELSE call("up_down_to", s, << s.pos.line + 1, shift >>)

do_home(s, ctrl, shift) ==
    IF s.failed THEN s ELSE call("set_pos", s,
                                 << Position(s.pos.line, 0), shift >>)

do_end(s, ctrl, shift) ==
    IF s.failed THEN s
    ELSE call("set_pos", s,
              << Position(s.pos.line, line_size(s.lines, s.pos.line)), shift >>)

move_lines_up(s, n_lines, keep_anchor) ==
    IF s.failed THEN s
    ELSE LET new_line_idx == IF s.pos.line < n_lines THEN 0
                             ELSE s.pos.line - n_lines
             line_sz == line_size(s.lines, new_line_idx)
             new_column_idx == IF s.pos.column > line_sz THEN line_sz
                               ELSE s.pos.column
         IN  call("set_pos", s,
                  << Position(new_line_idx, new_column_idx), keep_anchor >>)

\* a move_lines_down that keeps the column whatever the new line's size
move_lines_down_unclamped(s, n_lines, keep_anchor) ==
    IF s.failed THEN s
    ELSE LET new_line_idx ==
                 IF lines_size(s.lines) < n_lines
                    \/ lines_size(s.lines) - n_lines <= s.pos.line
                 THEN lines_size(s.lines) - 1
                 ELSE s.pos.line + n_lines
         IN  call("set_pos", s,
                  << Position(new_line_idx, s.pos.column), keep_anchor >>)

move_lines_down(s, n_lines, keep_anchor) ==
    IF s.failed THEN s
    ELSE LET new_line_idx ==
                 IF lines_size(s.lines) < n_lines
                    \/ lines_size(s.lines) - n_lines <= s.pos.line
                 THEN lines_size(s.lines) - 1
                 ELSE s.pos.line + n_lines
             line_sz == line_size(s.lines, new_line_idx)
             new_column_idx == IF s.pos.column > line_sz THEN line_sz
                               ELSE s.pos.column
         IN  call("set_pos", s,
                  << Position(new_line_idx, new_column_idx), keep_anchor >>)

\* std_paging_controller
do_page_up(s, ctrl, shift) == call("move_lines_up", s,
                                   << s.viewport_height, shift >>)

do_page_down(s, ctrl, shift) == call("move_lines_down", s,
                                     << s.viewport_height, shift >>)

select_all(s) ==
    call("set_pos_keep_anchor", call("set_pos_move_anchor", s, << begin_pos >>),
         << end_pos(s.lines) >>)

\* copy(): the selected characters
copy(s) == characters_str(s.lines, selected_range(s))

(***************************************************************************)
(* std::basic_string members used by std_edit_controller.ipp               *)
(***************************************************************************)
NPOS == -1

\* tab_space_search_str
TabSpace == {TAB, SPACE}

\* str.find_first_not_of(tab_space_search_str): 0-based index or NPOS
find_first_not_of(str) ==
    LET i == skip_while(str, 1, TabSpace)
    IN  IF i > Len(str) THEN NPOS ELSE i - 1

RECURSIVE skip_back_while(_, _, _)
skip_back_while(cs, i, cls) ==
    IF i < 1 \/ cs[i] \notin cls THEN i ELSE skip_back_while(cs, i - 1, cls)

\* str.find_last_not_of(tab_space_search_str): 0-based index or NPOS
find_last_not_of(str) ==
    LET i == skip_back_while(str, Len(str), TabSpace)
    IN  IF i < 1 THEN NPOS ELSE i - 1

\* str.substr(from, n); it throws std::out_of_range when from > size()
substr_ok(str, from) == from >= 0 /\ from <= Len(str)

substr(str, from, n) ==
    SubSeq(str, from + 1, IF from + n > Len(str) THEN Len(str) ELSE from + n)

(***************************************************************************)
(* std_edit_controller.ipp                                                 *)
(***************************************************************************)
\* the value find_indent_chars returns for "no line found"
SIZE_MAX == -1

\* insert_chars(p, chars)
insert_chars_at(s, p, chars) ==
    IF s.failed \/ chars = << >> THEN s
    ELSE LET s1 == call("text_insert", s, << p, chars >>)
         IN  IF s1.failed THEN s1
             ELSE IF s1.enable_history
             THEN call("history_add", s1,
                       << insert_modification(insert_range(p, chars), chars) >>)
             ELSE s1

delete_chars(s, r) ==
    IF s.failed THEN s
    ELSE IF ~range_ok(r) THEN Fail(s)
    ELSE IF r.start = r.end THEN s
    ELSE IF ~characters_ok(s.lines, r) THEN Fail(s)
    ELSE LET chars == characters_str(s.lines, r)
             s1 == call("text_erase", s, << r >>)
         IN  IF s1.failed THEN s1
             ELSE IF s1.enable_history
             THEN call("history_add", s1, << erase_modification(r, chars) >>)
             ELSE s1

\* insert_chars(chars)
insert_chars(s, chars) ==
    LET s1 == call("delete_chars", s, << selected_range(s) >>)
    IN  IF s1.failed THEN s1 ELSE call("insert_chars_at", s1,
                                       << s1.pos, chars >>)

\* find_indent_chars: << indent characters, line number >>
RECURSIVE find_indent_chars(_, _)
find_indent_chars(ls, lnum) ==
    LET l_str == line_str(ls, lnum)
        p == find_first_not_of(l_str)
    IN  IF p # NPOS THEN << substr(l_str, 0, p), lnum >>
        ELSE IF lnum = 0 THEN << << >>, SIZE_MAX >>
        ELSE find_indent_chars(ls, lnum - 1)

\* a remove_all_spaces_current_line that does not look at the characters of
\* the line
remove_all_spaces_current_line_any(s) ==
    IF s.failed THEN s
    ELSE LET cline == line_str(s.lines, s.pos.line) IN
         IF cline = << >> THEN s
         ELSE call("delete_chars", s, << Range(Position(s.pos.line, 0),
                                    Position(s.pos.line, Len(cline))) >>)

remove_all_spaces_current_line(s) ==
    IF s.failed THEN s
    ELSE LET cline == line_str(s.lines, s.pos.line) IN
         IF cline = << >> THEN s
         ELSE IF \E i \in 1 .. Len(cline) : cline[i] # SPACE /\ cline[i] # TAB
         THEN s
         ELSE call("delete_chars", s, << Range(Position(s.pos.line, 0),
                                    Position(s.pos.line, Len(cline))) >>)

\* a do_delete that looks backward from the cursor, as do_backspace does
do_delete_backward(s, ctrl, shift) ==
    IF s.failed THEN s
    ELSE LET sel == selected_range(s) IN
         IF sel.start = sel.end
         THEN IF ~get_pos_backward_ok(s.lines, sel.start) THEN Fail(s)
              ELSE LET p_start == get_pos_backward(s.lines, sel.start)
                   IN  IF p_start # sel.start
                       THEN call("delete_chars", s,
                                 << Range(p_start, sel.start) >>)
                       ELSE s
         ELSE call("delete_chars", s, << sel >>)

do_delete(s, ctrl, shift) ==
    IF s.failed THEN s
    ELSE LET sel == selected_range(s) IN
         IF sel.start = sel.end
         THEN IF ~get_pos_forward_ok(s.lines, sel.start) THEN Fail(s)
              ELSE LET p_end == get_pos_forward(s.lines, sel.start)
                   IN  IF p_end # sel.start
                       THEN call("delete_chars", s,
                                 << Range(sel.start, p_end) >>)
                       ELSE s
         ELSE call("delete_chars", s, << sel >>)

do_backspace(s, ctrl, shift) ==
    IF s.failed THEN s
    ELSE LET sel == selected_range(s) IN
         IF sel.start = sel.end
         THEN IF ~get_pos_backward_ok(s.lines, sel.start) THEN Fail(s)
              ELSE LET p_start == get_pos_backward(s.lines, sel.start)
                   IN  IF p_start # sel.start
                       THEN call("delete_chars", s,
                                 << Range(p_start, sel.start) >>)
                       ELSE s
         ELSE call("delete_chars", s, << sel >>)

\* one indent unit: a tab, or tab_size spaces when tabs are expanded
indent_unit(s) ==
    IF s.expand_tabs THEN Repeat(SPACE, s.tab_size) ELSE << TAB >>

do_enter(s, ctrl, shift) ==
    LET s1 == call("remove_all_spaces_current_line", s, << >>) IN
    IF s1.failed THEN s1
    ELSE LET ls == s1.lines
             sel_begin == selected_range(s1).start
             sel_line_start == substr(line_str(ls, sel_begin.line), 0,
                                      sel_begin.column)
             start_search_line ==
                 IF find_first_not_of(sel_line_start) = NPOS
                    /\ sel_begin.line # 0
                 THEN sel_begin.line - 1
                 ELSE sel_begin.line
             search_res == find_indent_chars(ls, start_search_line)
             lnum == search_res[2]
             add_tab ==
                 IF lnum = sel_begin.line
                 THEN LET l_str == line_str(ls, lnum)
                          lbegin == substr(l_str, 0, sel_begin.column)
                          last_char_pos == find_last_not_of(lbegin)
                      IN  last_char_pos # NPOS /\ l_str[last_char_pos + 1] = "{"
                 ELSE IF lnum # SIZE_MAX
                 THEN LET l_str == line_str(ls, lnum)
                          last_char_pos == find_last_not_of(l_str)
                      IN  l_str[last_char_pos + 1] = "{"
                 ELSE FALSE
             chars == << NL >> \o search_res[1]
                      \o (IF add_tab THEN indent_unit(s1) ELSE << >>)
         IN  call("insert_chars", s1, << chars >>)

\* do_tab, no Shift: the loop adding the indent to lines i .. e
RECURSIVE add_indent_lines(_, _, _, _)
add_indent_lines(s, i, e, chars) ==
    IF s.failed \/ i > e THEN s
    ELSE call("add_indent_lines", call("transaction_insert_characters", s,
                                       << Position(i, 0), chars >>),
              << i + 1, e, chars >>)

\* do_tab, Shift: the number of leading spaces of cline the inner loop
\* counts, starting with n counted and the character at index i (1-based)
RECURSIVE count_spaces_to_remove(_, _, _, _)
count_spaces_to_remove(cline, i, n, tsz) ==
    IF i > Len(cline) \/ cline[i] # SPACE THEN n
    ELSE IF n + 1 = tsz THEN n + 1
    ELSE count_spaces_to_remove(cline, i + 1, n + 1, tsz)

\* do_tab, Shift: the loop removing the indent of lines i .. last_line;
\* acc = << state, n_anchor_line_removed, n_pos_line_removed >>
RECURSIVE remove_indent_lines(_, _, _, _, _)
remove_indent_lines(acc, i, last_line, anchor_line, pos_line) ==
    LET s == acc[1] IN
    IF s.failed \/ i > last_line THEN acc
    ELSE LET cline == line_str(s.lines, i)
             is_tab == Len(cline) > 0 /\ cline[1] = TAB
             n_chars_removed ==
                 IF is_tab THEN 1
                 ELSE count_spaces_to_remove(cline, 1, 0, s.tab_size)
             s1 == call("transaction_erase_characters", s,
                        << Range(Position(i, 0), Position(i, n_chars_removed)) >>)
         IN  remove_indent_lines(
                 << s1,
                    IF i = anchor_line THEN n_chars_removed ELSE acc[2],
                    IF i = pos_line THEN n_chars_removed ELSE acc[3] >>,
                 i + 1, last_line, anchor_line, pos_line)

\* a block indent whose loop stops before the last selected line
do_tab_add_indent_short(s) ==
    LET orig_pos == s.pos
        orig_anchor_pos == s.anchor_pos
        chars == indent_unit(s)
        n == Len(chars)
        s1 == call("add_indent_lines", s,
                   << selected_range(s).start.line,
                      selected_range(s).end.line - 1, chars >>)
    IN  IF orig_pos.line = orig_anchor_pos.line
        THEN IF orig_pos.column = 0
             THEN call("set_pos_keep_anchor",
                       call("set_pos_move_anchor", s1,
                            << Position(orig_anchor_pos.line,
                                        orig_anchor_pos.column + n) >>),
                       << Position(orig_pos.line, 0) >>)
             ELSE call("set_pos_keep_anchor",
                       call("set_pos_move_anchor", s1,
                            << Position(orig_anchor_pos.line, 0) >>),
                       << Position(orig_pos.line, orig_pos.column + n) >>)
        ELSE call("set_pos_keep_anchor",
                  call("set_pos_move_anchor", s1,
                       << Position(orig_anchor_pos.line,
                                   orig_anchor_pos.column + n) >>),
                  << Position(orig_pos.line, orig_pos.column + n) >>)

\* do_tab: block indent (no Shift)
do_tab_add_indent(s) ==
    LET orig_pos == s.pos
        orig_anchor_pos == s.anchor_pos
        chars == indent_unit(s)
        n == Len(chars)
        s1 == call("add_indent_lines", s,
                   << selected_range(s).start.line, selected_range(s).end.line, chars >>)
    IN  IF orig_pos.line = orig_anchor_pos.line
        THEN IF orig_pos.column = 0
             THEN call("set_pos_keep_anchor", call("set_pos_move_anchor", s1,
                                                   << Position(orig_anchor_pos.line,
                                                       orig_anchor_pos.column + n) >>),
                       << Position(orig_pos.line, 0) >>)
             ELSE call("set_pos_keep_anchor", call("set_pos_move_anchor", s1,
                                                   << Position(orig_anchor_pos.line, 0) >>),
                       << Position(orig_pos.line, orig_pos.column + n) >>)
        ELSE call("set_pos_keep_anchor", call("set_pos_move_anchor", s1,
                                              << Position(orig_anchor_pos.line,
                                                  orig_anchor_pos.column + n) >>),
                  << Position(orig_pos.line, orig_pos.column + n) >>)

\* do_tab: block de-indent (Shift)
do_tab_remove_indent(s) ==
    LET orig_pos == s.pos
        orig_anchor_pos == s.anchor_pos
        res == remove_indent_lines(<< s, 0, 0 >>,
                                   selected_range(s).start.line,
                                   selected_range(s).end.line,
                                   s.anchor_pos.line, s.pos.line)
        anchor_col == IF orig_anchor_pos.column < res[2] THEN 0
                      ELSE orig_anchor_pos.column - res[2]
        pos_col == IF orig_pos.column < res[3] THEN 0
                   ELSE orig_pos.column - res[3]
    IN  call("set_pos_keep_anchor", call("set_pos_move_anchor", res[1],
                                         << Position(orig_anchor_pos.line, anchor_col) >>),
             << Position(orig_pos.line, pos_col) >>)

\* do_tab, Shift, empty selection: remove the indent before the cursor
do_tab_remove_before_cursor(s) ==
    LET p == selected_range(s).start
        cline == line_str(s.lines, p.line)
    IN  IF p.column = 0 THEN s
        ELSE IF cline[p.column] = TAB
        THEN call("transaction_erase_characters", s,
                  << Range(Position(p.line, p.column - 1), p) >>)
        ELSE LET tsz == s.tab_size
                 min_col == IF p.column % tsz = 0 THEN p.column - tsz
                            ELSE p.column - (p.column % tsz)
                 col == skip_back_while(cline, p.column, {SPACE})
             IN  call("transaction_erase_characters", s,
                      << Range(Position(p.line, IF col > min_col THEN col
                                               ELSE min_col), p) >>)

do_tab(s, ctrl, shift) ==
    IF s.failed THEN s
    ELSE LET sel == selected_range(s)
             cline == line_str(s.lines, s.pos.line)
             add_or_remove_indent ==
                 \/ sel.start.line # sel.end.line
                 \/ /\ cline # << >>
                    /\ sel.start.column = 0
                    /\ sel.end.column = Len(cline)
             s0 == [s EXCEPT !.group = << >>]
         IN  call("transaction_end", IF add_or_remove_indent
                 THEN IF ~shift THEN call("do_tab_add_indent", s0, << >>)
                      ELSE call("do_tab_remove_indent", s0, << >>)
                 ELSE IF shift
                 THEN IF sel.start # sel.end
                      THEN call("transaction_erase_characters", s0, << sel >>)
                      ELSE call("do_tab_remove_before_cursor", s0, << >>)
                 ELSE LET s1 == call("transaction_erase_characters", s0,
                                     << sel >>)
                          insert_pos == selected_range(s1).start
                      IN  IF s1.failed THEN s1
                          ELSE IF s1.expand_tabs
                          THEN call("transaction_insert_characters", s1,
                                    << s1.pos, Repeat(SPACE, s1.tab_size
                                                 - (insert_pos.column % s1.tab_size)) >>)
                          ELSE call("transaction_insert_characters", s1,
                                    << s1.pos, << TAB >> >>), << >>)

\* a do_insert that does not look at Ctrl and Shift
do_insert_always(s, ctrl, shift) ==
    IF s.failed THEN s
    ELSE [s EXCEPT !.is_overwrite_mode = ~@]

do_insert(s, ctrl, shift) ==
    IF s.failed \/ ctrl \/ shift THEN s
    ELSE [s EXCEPT !.is_overwrite_mode = ~@]

\* do_char: the indent removed before a '}' is inserted
do_char_remove_indent(s, cline) ==
    LET p == s.pos
        res_chars == find_indent_chars(s.lines, p.line - 1)[1]
    IN  IF substr(cline, 0, Len(res_chars)) # res_chars THEN s
        ELSE IF cline[Len(cline)] = TAB
        THEN call("delete_chars", s,
                  << Range(Position(p.line, p.column - 1), p) >>)
        ELSE IF Len(cline) >= s.tab_size
        THEN IF ~substr_ok(cline, Len(cline) - 4) THEN Fail(s)
             ELSE IF substr(cline, Len(cline) - 4, 4) = Repeat(SPACE, s.tab_size)
             THEN call("delete_chars", s,
                       << Range(Position(p.line, p.column - s.tab_size), p) >>)
             ELSE s
        ELSE s

\* a do_char that does not look at the overwrite mode
do_char_inserting(s, c) ==
    IF s.failed THEN s
    ELSE LET cline == line_str(s.lines, s.pos.line)
             s1 == IF /\ c = "}"
                      /\ selected_range(s).start = selected_range(s).end
                      /\ s.pos.line # 0
                      /\ s.pos.column = Len(cline)
                      /\ cline # << >>
                      /\ find_first_not_of(cline) = NPOS
                   THEN call("do_char_remove_indent", s, << cline >>)
                   ELSE s
         IN  call("insert_chars", s1, << << c >> >>)

do_char(s, c) ==
    IF s.failed THEN s
    ELSE LET cline == line_str(s.lines, s.pos.line) IN
         IF /\ s.is_overwrite_mode
            /\ selected_range(s).start = selected_range(s).end
            /\ s.pos.column # Len(cline)
         THEN call("set_pos_move_anchor", call("text_replace", s,
                                               << s.pos, << c >> >>),
                   << Position(s.pos.line, s.pos.column + 1) >>)
         ELSE LET s1 == IF /\ c = "}"
                           /\ selected_range(s).start = selected_range(s).end
                           /\ s.pos.line # 0
                           /\ s.pos.column = Len(cline)
                           /\ cline # << >>
                           /\ find_first_not_of(cline) = NPOS
                        THEN call("do_char_remove_indent", s, << cline >>)
                        ELSE s
              IN  call("insert_chars", s1, << << c >> >>)

can_cut(s) == selected_range(s).start # selected_range(s).end

cut(s) == call("do_delete", s, << FALSE, FALSE >>)

paste(s, text) == call("insert_chars", s, << text >>)

delete_(s) == call("do_delete", s, << FALSE, FALSE >>)

\* a controller that keeps recording while it replays
set_modification_history_enabled_kept(s, val) == [s EXCEPT !.enable_history = TRUE]

set_modification_history_enabled(s, val) == [s EXCEPT !.enable_history = val]

RECURSIVE perform_undo(_, _)
RECURSIVE perform_undo_members(_, _)

\* the loop of the modification_group branch
perform_undo_members(s, mods) ==
    IF s.failed \/ mods = << >> THEN s
    ELSE call("perform_undo_members", call("perform_undo", s, << Head(mods) >>),
              << Tail(mods) >>)

\* a perform_undo that deletes at the cursor without selecting the range of
\* the Insert it undoes
perform_undo_unselected(s, mod) ==
    IF s.failed THEN s
    ELSE LET s0 == set_modification_history_enabled(s, FALSE)
             s1 == CASE mod.kind = "insert" -> call("delete_", s0, << >>)
                      [] mod.kind = "erase" ->
                          call("paste", call("set_pos_move_anchor", s0,
                                             << mod.range.start >>),
                               << mod.chars >>)
                      [] mod.kind = "replace" ->
                          call("paste", call("set_pos_keep_anchor", call("set_pos_move_anchor", s0,
                                                                         << mod.range.start >>),
                                             << mod.range.end >>),
                               << mod.chars >>)
                      [] mod.kind = "group" ->
                          call("perform_undo_members", s0, << mod.mods >>)
                      [] OTHER -> Fail(s0)
         IN  IF s1.failed THEN s1
             ELSE set_modification_history_enabled(s1, TRUE)

perform_undo(s, mod) ==
    IF s.failed THEN s
    ELSE LET s0 == set_modification_history_enabled(s, FALSE)
             s1 == CASE mod.kind = "insert" ->
                          call("delete_", call("set_pos_keep_anchor", call("set_pos_move_anchor", s0,
                                                                           << mod.range.start >>),
                                               << mod.range.end >>),
                               << >>)
                      [] mod.kind = "erase" ->
                          call("paste", call("set_pos_move_anchor", s0,
                                             << mod.range.start >>),
                               << mod.chars >>)
                      [] mod.kind = "replace" ->
                          call("paste", call("set_pos_keep_anchor", call("set_pos_move_anchor", s0,
                                                                         << mod.range.start >>),
                                             << mod.range.end >>),
                               << mod.chars >>)
                      [] mod.kind = "group" ->
                          call("perform_undo_members", s0, << mod.mods >>)
                      [] OTHER -> Fail(s0)
         IN  IF s1.failed THEN s1
             ELSE set_modification_history_enabled(s1, TRUE)

perform_redo(s, mod) ==
    IF s.failed THEN s
    ELSE LET s0 == set_modification_history_enabled(s, FALSE)
             s1 == CASE mod.kind = "insert" ->
                          call("paste", call("set_pos_move_anchor", s0,
                                             << mod.range.start >>),
                               << mod.chars >>)
                      [] mod.kind = "erase" ->
                          call("delete_", call("set_pos_keep_anchor", call("set_pos_move_anchor", s0,
                                                                           << mod.range.start >>),
                                               << mod.range.end >>),
                               << >>)
                      [] mod.kind = "replace" ->
                          call("paste", call("set_pos_keep_anchor", call("set_pos_move_anchor", s0,
                                                                         << mod.range.start >>),
                                             << mod.range.end >>),
                               << mod.old_chars >>)
                      [] mod.kind = "group" ->
                          call("perform_undo_members", s0, << mod.mods >>)
                      [] OTHER -> Fail(s0)
         IN  IF s1.failed THEN s1
             ELSE set_modification_history_enabled(s1, TRUE)

undo(s) ==
    IF s.failed \/ ~can_undo(s) THEN s
    ELSE call("history_undo", call("perform_undo", s,
                                   << s.undo_mods[Len(s.undo_mods)] >>),
              << >>)

redo(s) ==
    IF s.failed \/ ~can_redo(s) THEN s
    ELSE call("history_redo", call("perform_redo", s,
                                   << s.redo_mods[Len(s.redo_mods)] >>),
              << >>)

do_before_save(s) == call("remove_all_spaces_current_line", s, << >>)

\* Calls between the handlers go through one dispatcher: f names the member
\* function, s is the editor state it runs on, a its remaining arguments.
call(f, s, a) ==
    CASE f = "set_pos_and_anchor" -> set_pos_and_anchor(s, a[1], a[2])
      [] f = "on_after_inserted" -> on_after_inserted(s, a[1])
      [] f = "on_after_erased" -> on_after_erased(s, a[1])
      [] f = "text_insert" -> text_insert(s, a[1], a[2])
      [] f = "text_erase" -> text_erase(s, a[1])
      [] f = "text_replace" -> text_replace(s, a[1], a[2])
      [] f = "history_add" -> history_add(s, a[1])
      [] f = "history_undo" -> history_undo(s)
      [] f = "history_redo" -> history_redo(s)
      [] f = "clear_changed" -> clear_changed(s)
      [] f = "history_clear" -> history_clear(s)
      [] f = "transaction_insert_characters" -> transaction_insert_characters(s, a[1], a[2])
      [] f = "transaction_erase_characters" -> transaction_erase_characters(s, a[1])
      [] f = "transaction_end" -> transaction_end(s)
      [] f = "select_text_impl" -> select_text_impl(s, a[1], a[2])
      [] f = "select_text" -> select_text(s, a[1], a[2], a[3])
      [] f = "set_pos_move_anchor" -> set_pos_move_anchor(s, a[1])
      [] f = "set_pos_keep_anchor" -> set_pos_keep_anchor(s, a[1])
      [] f = "set_pos" -> set_pos(s, a[1], a[2])
      [] f = "move_next_word" -> move_next_word(s, a[1])
      [] f = "move_prev_word" -> move_prev_word(s, a[1])
      [] f = "do_left" -> do_left(s, a[1], a[2])
      [] f = "do_right" -> do_right(s, a[1], a[2])
      [] f = "up_down_to" -> up_down_to(s, a[1], a[2])
      [] f = "do_up" -> do_up(s, a[1], a[2])
      [] f = "do_down" -> do_down(s, a[1], a[2])
      [] f = "do_home" -> do_home(s, a[1], a[2])
      [] f = "do_end" -> do_end(s, a[1], a[2])
      [] f = "move_lines_up" -> move_lines_up(s, a[1], a[2])
      [] f = "move_lines_down" -> move_lines_down(s, a[1], a[2])
      [] f = "do_page_up" -> do_page_up(s, a[1], a[2])
      [] f = "do_page_down" -> do_page_down(s, a[1], a[2])
      [] f = "select_all" -> select_all(s)
      [] f = "insert_chars_at" -> insert_chars_at(s, a[1], a[2])
      [] f = "delete_chars" -> delete_chars(s, a[1])
      [] f = "insert_chars" -> insert_chars(s, a[1])
      [] f = "remove_all_spaces_current_line" -> remove_all_spaces_current_line(s)
      [] f = "do_delete" -> do_delete(s, a[1], a[2])
      [] f = "do_backspace" -> do_backspace(s, a[1], a[2])
      [] f = "do_enter" -> do_enter(s, a[1], a[2])
      [] f = "add_indent_lines" -> add_indent_lines(s, a[1], a[2], a[3])
      [] f = "do_tab_add_indent" -> do_tab_add_indent(s)
      [] f = "do_tab_remove_indent" -> do_tab_remove_indent(s)
      [] f = "do_tab_remove_before_cursor" -> do_tab_remove_before_cursor(s)
      [] f = "do_tab" -> do_tab(s, a[1], a[2])
      [] f = "do_insert" -> do_insert(s, a[1], a[2])
      [] f = "do_char_remove_indent" -> do_char_remove_indent(s, a[1])
      [] f = "do_char" -> do_char(s, a[1])
      [] f = "cut" -> cut(s)
      [] f = "paste" -> paste(s, a[1])
      [] f = "delete_" -> delete_(s)
      [] f = "perform_undo_members" -> perform_undo_members(s, a[1])
      [] f = "perform_undo" -> perform_undo(s, a[1])
      [] f = "perform_redo" -> perform_redo(s, a[1])
      [] f = "undo" -> undo(s)
      [] f = "redo" -> redo(s)
      [] f = "do_before_save" -> do_before_save(s)


(***************************************************************************)
(* The state machine                                                       *)
(***************************************************************************)
\* Bounds of the exploration
\* editing actions in one run
MaxEdits == 2

\* navigation / selection actions in one run
MaxMoves == 1

\* undo / redo steps in one run
MaxReplays == 2

\* buffer operations in one run of the buffer-level specification
MaxBufOps == 2

\* buffer operations in one run of the specification of the buffer alone
MaxTextOps == 2

\* history operations in one run of the history-level specification
MaxHistOps == 6

\* adds made beyond the undo limit in the undo-limit specification
\* operations on a history whose checkpoint is followed
MaxMarkOps == 5

\* inserts and erases observed by a line-numbers text model
MaxNumOps == 2

\* calls observed by a viewport position model, and its largest
\* visible-lines count
MaxViewOps == 2

MaxVisible == 2

\* calls seen by the two selection models
MaxSelOps == 2

MaxOverflow == 2

\* applications of a position / range function in one run of the
\* specification of range.hpp
MaxAdjusts == 1

\* lines and columns of the positions that specification draws
MaxCoord == 2

\* actions in one run of the cursor-movement specification
MaxSteps == 3

\* the greatest viewport height of the cursor-movement specification
MaxHeight == 4

\* operations in one run of the transaction-level specification

MaxTransOps == 2

\* the current state as the record the handlers work on
St == [lines |-> lines, pos |-> pos, anchor_pos |-> anchor_pos,
       move_pos_after_insert |-> move_pos_after_insert,
       undo_mods |-> undo_mods, redo_mods |-> redo_mods,
       undo_redo_count |-> undo_redo_count,
       enable_history |-> enable_history,
       is_overwrite_mode |-> is_overwrite_mode,
       expand_tabs |-> expand_tabs, tab_size |-> tab_size,
       up_down_saved_column |-> up_down_saved_column,
       viewport_height |-> viewport_height,
       failed |-> failed, probes |-> probes, emitted |-> << >>,
       group |-> << >>]

\* the next state is s
Becomes(s) ==
    /\ lines' = s.lines
    /\ pos' = s.pos
    /\ anchor_pos' = s.anchor_pos
    /\ move_pos_after_insert' = s.move_pos_after_insert
    /\ undo_mods' = s.undo_mods
    /\ redo_mods' = s.redo_mods
    /\ undo_redo_count' = s.undo_redo_count
    /\ enable_history' = s.enable_history
    /\ is_overwrite_mode' = s.is_overwrite_mode
    /\ expand_tabs' = s.expand_tabs
    /\ tab_size' = s.tab_size
    /\ up_down_saved_column' = s.up_down_saved_column
    /\ viewport_height' = s.viewport_height
    /\ failed' = s.failed
    /\ probes' = s.probes
    /\ emitted' = s.emitted

\* the scenarios a run starts with:
\* << document, expand_tabs, tab_size, is_overwrite_mode >>
InitScenarios ==
    { << << << "a" >>, << "b" >> >>, FALSE, 4, FALSE >>,
      << << << "a" >>, << "b" >> >>, FALSE, 4, TRUE >>,
      << << << "{" >>, << SPACE, SPACE >> >>, TRUE, 2, FALSE >>,
      << << << TAB, "a" >>, << TAB >> >>, FALSE, 4, FALSE >>,
      << << << SPACE, "a" >> >>, TRUE, 2, FALSE >>,
      << << << "a" >>, << >>, << "b" >> >>, TRUE, 2, FALSE >> }

\* the characters typed and the texts pasted
TypedChars == { "x", "}" }

PastedTexts == { << "a", NL, "b" >> }

\* the texts a client overwrites characters with
ReplacedTexts == { << "x" >>, << "x", "b" >> }

\* the documents and the non-empty texts of the buffer-level specification
BufDocs == { << << "a", "b" >> >>, << << "a" >>, << "b" >> >> }

BufTexts == { << "x" >>, << "x", NL, "y" >>, << CR >> }

Snapshot(s) == [lines |-> s.lines, pos |-> s.pos, anchor_pos |-> s.anchor_pos,
                changed |-> changed(s)]

InitCommon ==
    /\ \E sc \in InitScenarios :
          /\ lines = sc[1]
          /\ expand_tabs = sc[2]
          /\ tab_size = sc[3]
          /\ is_overwrite_mode = sc[4]
    /\ pos \in Positions(lines)
    /\ anchor_pos \in Positions(lines)
    /\ move_pos_after_insert = TRUE
    /\ undo_mods = << >>
    /\ redo_mods = << >>
    /\ undo_redo_count = 0
    /\ enable_history = TRUE
    /\ up_down_saved_column = 0
    /\ viewport_height = 1
    /\ failed = FALSE
    /\ emitted = << >>
    /\ op = "init"
    /\ seq = [n_edits |-> 0, n_undos |-> 0, n_redos |-> 0,
              before |-> [lines |-> lines, pos |-> pos,
                          anchor_pos |-> anchor_pos, changed |-> FALSE],
              after |-> << >>, arg |-> << >>]

\* editing, undo and redo
Init ==
    /\ InitCommon
    /\ probes = FALSE
    /\ budget = [edits |-> MaxEdits, moves |-> 0, replays |-> MaxReplays]

\* navigation as well, around at most one edit
InitNav ==
    /\ InitCommon
    /\ probes = FALSE
    /\ budget = [edits |-> 1, moves |-> MaxMoves, replays |-> 1]

\* an editing action of the controller. seq follows the current sequence
\* "n editing actions that change the buffer, then undos, then redos":
\* before is the state the sequence started from, after the text its last
\* editing action left; an action that leaves the text alone ends it.
\* seq.arg keeps the arguments the action was called with.
EditArg(name, s, arg) ==
    /\ ~failed
    /\ budget.edits > 0
    /\ Becomes(s)
    /\ op' = name
    /\ budget' = [budget EXCEPT !.edits = @ - 1]
    /\ seq' = IF s.lines = lines
              THEN [n_edits |-> 0, n_undos |-> 0, n_redos |-> 0,
                    before |-> Snapshot(s), after |-> << >>, arg |-> arg]
              ELSE IF seq.n_undos = 0 /\ seq.n_redos = 0
              THEN [seq EXCEPT !.n_edits = @ + 1,
                               !.before = IF seq.n_edits = 0
                                          THEN Snapshot(St) ELSE @,
                               !.after = s.lines,
                               !.arg = arg]
              ELSE [n_edits |-> 1, n_undos |-> 0, n_redos |-> 0,
                    before |-> Snapshot(St), after |-> s.lines, arg |-> arg]

Edit(name, s) == EditArg(name, s, << >>)

\* a navigation / selection action: it ends any sequence
Move(name, s) ==
    /\ ~failed
    /\ budget.moves > 0
    /\ Becomes(s)
    /\ op' = name
    /\ budget' = [budget EXCEPT !.moves = @ - 1]
    /\ seq' = [n_edits |-> 0, n_undos |-> 0, n_redos |-> 0,
               before |-> Snapshot(s), after |-> << >>, arg |-> << >>]

DoChar ==
    \E c \in TypedChars :
        EditArg("do_char", call("do_char", St, << c >>), << c >>)

DoEnter == Edit("do_enter", call("do_enter", St, << FALSE, FALSE >>))

DoTab ==
    \E shift \in BOOLEAN :
        EditArg("do_tab", call("do_tab", St, << FALSE, shift >>), << shift >>)

DoDelete == Edit("do_delete", call("do_delete", St, << FALSE, FALSE >>))

DoBackspace == Edit("do_backspace", call("do_backspace", St,
                                         << FALSE, FALSE >>))

Cut == can_cut(St) /\ Edit("cut", call("cut", St, << >>))

Paste == \E text \in PastedTexts : Edit("paste", call("paste", St, << text >>))

Undo ==
    /\ ~failed
    /\ budget.replays > 0
    /\ Becomes(call("undo", St, << >>))
    /\ op' = "undo"
    /\ budget' = [budget EXCEPT !.replays = @ - 1]
    /\ seq' = IF seq.n_edits > 0 /\ seq.n_redos = 0 /\ seq.n_undos < seq.n_edits
              THEN [seq EXCEPT !.n_undos = @ + 1]
              ELSE [n_edits |-> 0, n_undos |-> 0, n_redos |-> 0,
                    before |-> Snapshot(call("undo", St,
                                             << >>)), after |-> << >>, arg |-> << >>]

Redo ==
    /\ ~failed
    /\ budget.replays > 0
    /\ Becomes(call("redo", St, << >>))
    /\ op' = "redo"
    /\ budget' = [budget EXCEPT !.replays = @ - 1]
    /\ seq' = IF seq.n_undos > 0 /\ seq.n_redos < seq.n_undos
              THEN [seq EXCEPT !.n_redos = @ + 1]
              ELSE [n_edits |-> 0, n_undos |-> 0, n_redos |-> 0,
                    before |-> Snapshot(call("redo", St,
                                             << >>)), after |-> << >>, arg |-> << >>]

\* the Insert key and the save hook: no editing action, they end a sequence
OtherArg(name, s, arg) ==
    /\ ~failed
    /\ budget.edits > 0
    /\ Becomes(s)
    /\ op' = name
    /\ budget' = [budget EXCEPT !.edits = @ - 1]
    /\ seq' = [n_edits |-> 0, n_undos |-> 0, n_redos |-> 0,
               before |-> Snapshot(s), after |-> << >>, arg |-> arg]

Other(name, s) == OtherArg(name, s, << >>)

DoInsert ==
    \E ctrl, shift \in BOOLEAN :
        OtherArg("do_insert", call("do_insert", St, << ctrl, shift >>),
                 << ctrl, shift >>)

DoBeforeSave == Other("do_before_save", call("do_before_save", St, << >>))

DoLeft == \E ctrl, shift \in BOOLEAN : Move("do_left", call("do_left", St,
                                                            << ctrl, shift >>))

DoRight == \E ctrl, shift \in BOOLEAN : Move("do_right", call("do_right", St,
                                                              << ctrl, shift >>))

DoUp == \E shift \in BOOLEAN : Move("do_up", call("do_up", St,
                                                  << FALSE, shift >>))

DoDown == \E shift \in BOOLEAN : Move("do_down", call("do_down", St,
                                                      << FALSE, shift >>))

DoHome == \E shift \in BOOLEAN : Move("do_home", call("do_home", St,
                                                      << FALSE, shift >>))

DoEnd == \E shift \in BOOLEAN : Move("do_end", call("do_end", St,
                                                    << FALSE, shift >>))

DoPageUp == \E shift \in BOOLEAN : Move("do_page_up", call("do_page_up", St,
                                                           << FALSE, shift >>))

DoPageDown ==
    \E shift \in BOOLEAN : Move("do_page_down", call("do_page_down", St,
                                                     << FALSE, shift >>))

SelectAll == Move("select_all", call("select_all", St, << >>))

\* a client that overwrites characters through the buffer and records the
\* change in the history as a Replace
ClientReplace ==
    \E p \in Positions(lines), chars \in ReplacedTexts :
        /\ ~failed
        /\ budget.edits > 0
        /\ p.column + Len(chars) <= line_size(lines, p.line)
        /\ LET r == Range(p, Position(p.line, p.column + Len(chars)))
               old_chars == characters_str(lines, r)
           IN  Becomes(call("history_add", call("text_replace", St,
                                                << p, chars >>),
                            << replace_modification(r, old_chars, chars) >>))
        /\ op' = "replace"
        /\ budget' = [budget EXCEPT !.edits = @ - 1]
        /\ UNCHANGED seq

\* the buffer used directly, its observers connected
InitBuf ==
    /\ lines \in BufDocs
    /\ pos \in Positions(lines)
    /\ anchor_pos \in Positions(lines)
    /\ move_pos_after_insert \in BOOLEAN
    /\ undo_mods = << >>
    /\ redo_mods = << >>
    /\ undo_redo_count = 0
    /\ enable_history = TRUE
    /\ is_overwrite_mode = FALSE
    /\ expand_tabs = FALSE
    /\ tab_size = 4
    /\ up_down_saved_column = 1
    /\ viewport_height = 1
    /\ failed = FALSE
    /\ probes = TRUE
    /\ emitted = << >>
    /\ op = "init"
    /\ budget = [edits |-> MaxBufOps, moves |-> 0, replays |-> 0]
    /\ seq = [n_edits |-> 0, n_undos |-> 0, n_redos |-> 0,
              before |-> [lines |-> lines, pos |-> pos,
                          anchor_pos |-> anchor_pos, changed |-> FALSE],
              after |-> << >>,
              arg |-> Range(begin_pos, begin_pos),
              ret |-> Range(begin_pos, begin_pos)]

\* an operation of the buffer, called with valid arguments
Buf(name, s) ==
    /\ ~failed
    /\ budget.edits > 0
    /\ Becomes(s)
    /\ op' = name
    /\ budget' = [budget EXCEPT !.edits = @ - 1]
    /\ UNCHANGED seq

BufInsert ==
    \E p \in Positions(lines), chars \in BufTexts :
        Buf("insert", call("text_insert", St, << p, chars >>))

BufErase ==
    \E r \in Ranges(lines) : Buf("erase", call("text_erase", St, << r >>))

BufReplace ==
    \E p \in Positions(lines), chars \in ReplacedTexts :
        /\ p.column + Len(chars) <= line_size(lines, p.line)
        /\ Buf("replace", call("text_replace", St, << p, chars >>))

\* insert() called with no characters and erase() called with an empty
\* range; seq keeps the argument and, for insert(), the range it returned
BufNothing(name, s, arg, ret) ==
    /\ ~failed
    /\ budget.edits > 0
    /\ Becomes(s)
    /\ op' = name
    /\ budget' = [budget EXCEPT !.edits = @ - 1]
    /\ seq' = [seq EXCEPT !.arg = arg, !.ret = ret]

BufInsertNothing ==
    \E p \in Positions(lines) :
        BufNothing("insert_nothing", call("text_insert", St, << p, << >> >>),
                   Range(p, p), insert_result(p, << >>))

BufEraseNothing ==
    \E p \in Positions(lines) :
        BufNothing("erase_nothing", call("text_erase", St, << Range(p, p) >>),
                   Range(p, p), Range(p, p))

(***************************************************************************)
(* text_line_numbers_model.hpp, line_numbers_text_model.hpp.  A record n   *)
(* holds the lines of the observed buffer, the two fields of the           *)
(* line-numbers text model and the signals that model has emitted.         *)
(***************************************************************************)
RECURSIVE digits(_)
digits(lines_count) ==
    IF lines_count > 0 THEN 1 + digits(lines_count \div 10) ELSE 0

\* text_line_numbers_model::max_size
max_size(n) == digits(Len(n.lines))

line_str_size(n) == max_size(n)

max_line_size(n) == max_size(n)

NoLines == << 0, 0 >>

calc_original_line_number(n, idx) ==
    IF n.curr_insert_erase_lines_ # NoLines
    THEN LET first == n.curr_insert_erase_lines_[1]
             last == n.curr_insert_erase_lines_[2]
         IN  IF idx > last THEN idx - (last - first) ELSE idx
    ELSE idx

\* line_number(calc_original_line_number(idx)) of every line, as numbers
line_numbers(n) ==
    [i \in 1..Len(n.lines) |-> calc_original_line_number(n, i - 1) + 1]

\* an emission of the line-numbers text model; the observer reads the
\* numbers of all lines
NumEmit(n, sig, r) ==
    [n EXCEPT !.emitted =
         Append(@, [sig |-> sig, range |-> r, numbers |-> line_numbers(n)])]

calc_insert_erase_range(n, r) ==
    Range(Position(r.start.line, line_str_size(n)),
          Position(r.end.line, line_str_size(n)))

\* the lines from the one after r to the last
replace_range(n, r) ==
    Range(Position(r.end.line + 1, 0),
          Position(Len(n.lines) - 1, line_str_size(n)))

\* the update of max_line_size_ at the end of a handler
update_max_line_size(n) ==
    LET new_max_line_size == max_line_size(n)
    IN  IF new_max_line_size # n.max_line_size_
        THEN NumEmit([n EXCEPT !.max_line_size_ = new_max_line_size],
                     "max_line_size_changed", NoRange)
        ELSE n

num_on_before_inserted(n, r) ==
    IF n.failed THEN n
    ELSE IF r = NoRange THEN Fail(n)
    ELSE IF r.start.line = r.end.line THEN n
    ELSE NumEmit(n, "before_inserted", calc_insert_erase_range(n, r))

num_on_after_inserted(n, r) ==
    IF n.failed THEN n
    ELSE IF r = NoRange THEN Fail(n)
    ELSE IF r.start.line = r.end.line THEN n
    ELSE IF r.end.line = Len(n.lines) - 1
    THEN NumEmit(NumEmit(n, "after_inserted", calc_insert_erase_range(n, r)),
                 "after_inserted_2", calc_insert_erase_range(n, r))
    ELSE LET n1 == [n EXCEPT !.curr_insert_erase_lines_ =
                                 << r.start.line, r.end.line >>]
             n2 == NumEmit(n1, "after_inserted",
                           calc_insert_erase_range(n1, r))
             n3 == NumEmit(n2, "after_inserted_2",
                           calc_insert_erase_range(n2, r))
             n4 == update_max_line_size(n3)
             n5 == NumEmit(n4, "before_replaced", replace_range(n4, r))
             n6 == [n5 EXCEPT !.curr_insert_erase_lines_ = NoLines]
         IN  NumEmit(n6, "after_replaced", replace_range(n4, r))

\* an on_before_erased that announces the erase before the replace
num_on_before_erased_first(n, r) ==
    IF n.failed THEN n
    ELSE IF r = NoRange THEN Fail(n)
    ELSE IF r.start.line = r.end.line THEN n
    ELSE IF r.end.line = Len(n.lines) - 1
    THEN NumEmit(n, "before_erased", calc_insert_erase_range(n, r))
    ELSE LET n1 == NumEmit(n, "before_erased", calc_insert_erase_range(n, r))
             n2 == NumEmit(n1, "before_replaced", replace_range(n1, r))
             n3 == [n2 EXCEPT !.curr_insert_erase_lines_ =
                                  << r.start.line, r.end.line >>]
         IN  NumEmit(n3, "after_replaced", replace_range(n1, r))

num_on_before_erased(n, r) ==
    IF n.failed THEN n
    ELSE IF r = NoRange THEN Fail(n)
    ELSE IF r.start.line = r.end.line THEN n
    ELSE IF r.end.line = Len(n.lines) - 1
    THEN NumEmit(n, "before_erased", calc_insert_erase_range(n, r))
    ELSE LET n1 == NumEmit(n, "before_replaced", replace_range(n, r))
             n2 == [n1 EXCEPT !.curr_insert_erase_lines_ =
                                  << r.start.line, r.end.line >>]
             n3 == NumEmit(n2, "after_replaced", replace_range(n, r))
         IN  NumEmit(n3, "before_erased", calc_insert_erase_range(n3, r))

num_on_after_erased(n, r) ==
    IF n.failed THEN n
    ELSE IF r = NoRange THEN Fail(n)
    ELSE IF r.start.line = r.end.line THEN n
    ELSE LET n1 == [n EXCEPT !.curr_insert_erase_lines_ = NoLines]
             n2 == NumEmit(n1, "after_erased", calc_insert_erase_range(n1, r))
             n3 == NumEmit(n2, "after_erased_2",
                           calc_insert_erase_range(n2, r))
         IN  update_max_line_size(n3)

\* basic_simple_text_model::insert with the line-numbers text model as the
\* observer of before_inserted and after_inserted
num_insert(n, p, chars) ==
    IF n.failed \/ chars = << >> THEN n
    ELSE LET ins_range == insert_range(p, chars)
             n1 == num_on_before_inserted(n, ins_range)
             n2 == [n1 EXCEPT !.lines = insert_lines(n.lines, p, chars)]
         IN  num_on_after_inserted(n2, ins_range)

\* basic_simple_text_model::erase with the line-numbers text model as the
\* observer of before_erased and after_erased
num_erase(n, r) ==
    IF n.failed \/ r.start = r.end THEN n
    ELSE LET n1 == num_on_before_erased(n, r)
             n2 == [n1 EXCEPT !.lines = erase_lines(n.lines, r)]
         IN  num_on_after_erased(n2, r)

\* the buffers the line-numbers text model is constructed over: three
\* lines, and nine, one short of a second digit
NumDocs ==
    { << << "a" >>, << >>, << "b" >> >>,
      << << "a" >>, << >>, << >>, << >>, << >>, << >>, << >>, << >>, << >> >> }

NumTexts == { << "x" >>, << NL >>, << "x", NL, "y" >>, << NL, NL >> }

\* a line-numbers text model over a buffer; seq holds its two fields, the
\* range of the last insert or erase in the buffer and the value
\* max_line_size() had before it
InitNum ==
    /\ lines \in NumDocs
    /\ pos = Position(0, 0)
    /\ anchor_pos = Position(0, 0)
    /\ move_pos_after_insert = TRUE
    /\ undo_mods = << >>
    /\ redo_mods = << >>
    /\ undo_redo_count = 0
    /\ enable_history = TRUE
    /\ is_overwrite_mode = FALSE
    /\ expand_tabs = FALSE
    /\ tab_size = 4
    /\ up_down_saved_column = 0
    /\ viewport_height = 1
    /\ failed = FALSE
    /\ probes = TRUE
    /\ emitted = << >>
    /\ op = "init"
    /\ budget = [edits |-> MaxNumOps, moves |-> 0, replays |-> 0]
    /\ seq = [max_line_size_ |-> digits(Len(lines)),
              curr_insert_erase_lines_ |-> NoLines,
              range |-> NoRange, old_max_line_size |-> digits(Len(lines)),
              old_lines_size |-> Len(lines)]

Num == [lines |-> lines, max_line_size_ |-> seq.max_line_size_,
        curr_insert_erase_lines_ |-> seq.curr_insert_erase_lines_,
        emitted |-> << >>, failed |-> failed]

NumStep(name, n, r) ==
    /\ ~failed
    /\ budget.edits > 0
    /\ lines' = n.lines
    /\ emitted' = n.emitted
    /\ failed' = n.failed
    /\ seq' = [max_line_size_ |-> n.max_line_size_,
               curr_insert_erase_lines_ |-> n.curr_insert_erase_lines_,
               range |-> r, old_max_line_size |-> max_line_size(Num),
               old_lines_size |-> Len(lines)]
    /\ op' = name
    /\ budget' = [budget EXCEPT !.edits = @ - 1]
    /\ UNCHANGED << pos, anchor_pos, move_pos_after_insert, undo_mods,
                    redo_mods, undo_redo_count, enable_history,
                    is_overwrite_mode, expand_tabs, tab_size,
                    up_down_saved_column, viewport_height, probes >>

NumInsert ==
    \E p \in Positions(lines), chars \in NumTexts :
        NumStep("insert", num_insert(Num, p, chars), insert_range(p, chars))

NumErase ==
    \E r \in Ranges(lines) :
        /\ r.start # r.end
        /\ NumStep("erase", num_erase(Num, r), r)

(***************************************************************************)
(* simple_viewport_position_model.hpp,                                     *)
(* preserving_viewport_position_model.hpp.  A record w holds, in w.s, the  *)
(* buffer with its single_selection_model and, beside it, the fields of    *)
(* the viewport position model.  The selection model is constructed before *)
(* the viewport position model, so of two handlers connected to the same   *)
(* signal the selection model's runs first.                                *)
(***************************************************************************)
\* the value of preserve_relative_vertical_pos_offset_ for "no offset"
UINT64_MAX == -1

max_pos(w) == Len(w.s.lines) - 1

view_set_pos(w, p) == IF w.pos_ = p THEN w ELSE [w EXCEPT !.pos_ = p]

\* on_before_erased and on_before_inserted have the same body
keep_offset(w, r) ==
    IF PosLess(r.end, w.s.pos) /\ w.s.pos.line >= w.pos_
    THEN [w EXCEPT !.preserve_relative_vertical_pos_offset_ =
                       w.s.pos.line - w.pos_]
    ELSE w

view_on_before_erased(w, r) == keep_offset(w, r)

view_on_after_erased(w) ==
    [w EXCEPT !.preserve_relative_vertical_pos_offset_ = UINT64_MAX]

view_on_before_inserted(w, r) == keep_offset(w, r)

view_on_after_inserted(w) ==
    [w EXCEPT !.preserve_relative_vertical_pos_offset_ = UINT64_MAX]

on_selection_changed(w) ==
    LET line == w.s.pos.line
        offset == w.preserve_relative_vertical_pos_offset_
        vis_lcount == w.visible_lines_count_
    IN  IF offset # UINT64_MAX
        THEN LET new_pos == IF line >= offset THEN line - offset ELSE 0
             IN  view_set_pos(w, IF new_pos > max_pos(w) THEN max_pos(w)
                                 ELSE new_pos)
        ELSE IF line < w.pos_ THEN view_set_pos(w, line)
        ELSE IF vis_lcount # 0 /\ line >= vis_lcount
                               /\ line - vis_lcount + 1 > w.pos_
        THEN view_set_pos(w, line - vis_lcount + 1)
        ELSE w

\* a handler of the selection model run on w.s, followed by
\* on_selection_changed if the selection model has emitted changed
selection_step(w, s1) ==
    LET w1 == [w EXCEPT !.s = s1]
    IN  IF s1.failed \/ s1.emitted = w.s.emitted THEN w1
        ELSE on_selection_changed(w1)

\* basic_simple_text_model::insert with the selection model and the viewport
\* position model as observers: before_inserted, after_inserted (the
\* viewport position model), after_inserted_2 (the selection model)
view_insert(w, p, chars) ==
    IF w.s.failed \/ chars = << >> THEN w
    ELSE IF ~pos_is_valid(w.s.lines, p) THEN [w EXCEPT !.s = Fail(w.s)]
    ELSE LET ins_range == insert_range(p, chars)
             w1 == view_on_before_inserted(w, ins_range)
             w2 == [w1 EXCEPT !.s.lines = insert_lines(w.s.lines, p, chars)]
             w3 == view_on_after_inserted(w2)
         IN  selection_step(w3, call("on_after_inserted", w3.s,
                                     << ins_range >>))

\* basic_simple_text_model::erase with the same observers: before_erased
\* (the viewport position model, at the front), after_erased_2 (the
\* selection model, then the viewport position model)
view_erase(w, r) ==
    IF w.s.failed \/ r.start = r.end THEN w
    ELSE LET w1 == view_on_before_erased(w, r)
             w2 == [w1 EXCEPT !.s.lines = erase_lines(w.s.lines, r)]
             w3 == selection_step(w2, call("on_after_erased", w2.s, << r >>))
         IN  view_on_after_erased(w3)

\* single_selection_model::set_pos_and_anchor with the viewport position
\* model as observer of changed
view_select(w, a_pos, p) ==
    selection_step(w, call("set_pos_and_anchor", w.s, << a_pos, p >>))

ViewDoc == << << "a" >>, << >>, << "b" >>, << >>, << "c" >> >>

ViewTexts == { << "x" >>, << NL >>, << NL, NL >> }

\* a buffer with a selection model and a viewport position model at any
\* position, for any visible-lines count up to MaxVisible; seq holds the
\* fields of the viewport position model, the last call and the cursor and
\* viewport position before it
InitView ==
    /\ lines = ViewDoc
    /\ pos \in Positions(lines)
    /\ anchor_pos = pos
    /\ move_pos_after_insert = TRUE
    /\ undo_mods = << >>
    /\ redo_mods = << >>
    /\ undo_redo_count = 0
    /\ enable_history = TRUE
    /\ is_overwrite_mode = FALSE
    /\ expand_tabs = FALSE
    /\ tab_size = 4
    /\ up_down_saved_column = 0
    /\ viewport_height = 1
    /\ failed = FALSE
    /\ probes = TRUE
    /\ emitted = << >>
    /\ op = "init"
    /\ budget = [edits |-> MaxViewOps, moves |-> 0, replays |-> 0]
    /\ \E p \in 0 .. Len(lines) - 1, cnt \in 0 .. MaxVisible :
           seq = [pos_ |-> p, visible_lines_count_ |-> cnt,
                  preserve_relative_vertical_pos_offset_ |-> UINT64_MAX,
                  range |-> NoRange, old_pos |-> pos, old_pos_ |-> p]

View == [s |-> St, pos_ |-> seq.pos_,
         visible_lines_count_ |-> seq.visible_lines_count_,
         preserve_relative_vertical_pos_offset_ |->
             seq.preserve_relative_vertical_pos_offset_]

ViewStep(name, w, r) ==
    /\ ~failed
    /\ budget.edits > 0
    /\ Becomes(w.s)
    /\ op' = name
    /\ budget' = [budget EXCEPT !.edits = @ - 1]
    /\ seq' = [pos_ |-> w.pos_,
               visible_lines_count_ |-> w.visible_lines_count_,
               preserve_relative_vertical_pos_offset_ |->
                   w.preserve_relative_vertical_pos_offset_,
               range |-> r, old_pos |-> pos, old_pos_ |-> seq.pos_]

ViewInsert ==
    \E p \in Positions(lines), chars \in ViewTexts :
        ViewStep("insert", view_insert(View, p, chars),
                 insert_range(p, chars))

ViewErase ==
    \E r \in Ranges(lines) :
        /\ r.start # r.end
        /\ ViewStep("erase", view_erase(View, r), r)

ViewSelect ==
    \E p \in Positions(lines) :
        ViewStep("set_pos_and_anchor", view_select(View, p, p), Range(p, p))

SelDoc == << << "a", "b" >>, << "c" >> >>

SelTexts == { << "x" >>, << NL >>, << "x", NL, "y" >> }

\* a buffer observed by a single_selection_model (pos, anchor_pos) and a
\* simple_single_selection_model (seq.simple), both with the same position,
\* anchor and move_pos_after_insert flag; seq.simple.changed and seq.changed
\* count the changed signals each emitted during the last call
InitSel ==
    /\ lines = SelDoc
    /\ pos \in Positions(lines)
    /\ anchor_pos \in Positions(lines)
    /\ move_pos_after_insert \in BOOLEAN
    /\ undo_mods = << >>
    /\ redo_mods = << >>
    /\ undo_redo_count = 0
    /\ enable_history = TRUE
    /\ is_overwrite_mode = FALSE
    /\ expand_tabs = FALSE
    /\ tab_size = 4
    /\ up_down_saved_column = 0
    /\ viewport_height = 1
    /\ failed = FALSE
    /\ probes = TRUE
    /\ emitted = << >>
    /\ op = "init"
    /\ budget = [edits |-> MaxSelOps, moves |-> 0, replays |-> 0]
    /\ seq = [simple |-> [pos |-> pos, anchor_pos |-> anchor_pos,
                          failed |-> FALSE, changed |-> 0],
              changed |-> 0, range |-> NoRange]

\* the simple_single_selection_model over the buffer with the lines ls
Simple(ls) ==
    [St EXCEPT !.lines = ls, !.pos = seq.simple.pos,
               !.anchor_pos = seq.simple.anchor_pos,
               !.failed = seq.simple.failed]

IsChanged(e) == e.sig = "changed"

\* one call seen by both models: s is the buffer with the
\* single_selection_model after it, t the simple_single_selection_model
SelStep(name, s, t, r) ==
    /\ ~failed
    /\ budget.edits > 0
    /\ Becomes(s)
    /\ op' = name
    /\ budget' = [budget EXCEPT !.edits = @ - 1]
    /\ seq' = [simple |-> [pos |-> t.pos, anchor_pos |-> t.anchor_pos,
                           failed |-> t.failed,
                           changed |-> Len(SelectSeq(t.emitted, IsChanged))],
               changed |-> Len(SelectSeq(s.emitted, IsChanged)),
               range |-> r]

SelSet ==
    \E a \in Positions(lines), p \in Positions(lines) :
        SelStep("set_pos_and_anchor",
                call("set_pos_and_anchor", St, << a, p >>),
                simple_set_pos_and_anchor(Simple(lines), a, p), Range(p, p))

SelInsert ==
    \E p \in Positions(lines), chars \in SelTexts :
        SelStep("insert", call("text_insert", St, << p, chars >>),
                simple_on_after_inserted(
                    Simple(insert_lines(lines, p, chars)),
                    insert_range(p, chars)),
                insert_range(p, chars))

SelErase ==
    \E r \in Ranges(lines) :
        /\ r.start # r.end
        /\ SelStep("erase", call("text_erase", St, << r >>),
                   simple_on_after_erased(Simple(erase_lines(lines, r)), r),
                   r)

\* the modifications a client records in the history-level specification
HistMods ==
    { insert_modification(Range(Position(0, 0), Position(0, 1)), << "x" >>),
      erase_modification(Range(Position(0, 0), Position(0, 1)), << "a" >>) }

\* a modification_history on its own, observed through its three signals;
\* seq.lost records that add() ran while the counter was negative and that
\* neither clear_changed() nor clear() ran since
InitHist ==
    /\ lines = << << "a" >> >>
    /\ pos = Position(0, 0)
    /\ anchor_pos = Position(0, 0)
    /\ move_pos_after_insert = TRUE
    /\ undo_mods = << >>
    /\ redo_mods = << >>
    /\ undo_redo_count = 0
    /\ enable_history = TRUE
    /\ is_overwrite_mode = FALSE
    /\ expand_tabs = FALSE
    /\ tab_size = 4
    /\ up_down_saved_column = 0
    /\ viewport_height = 1
    /\ failed = FALSE
    /\ probes = TRUE
    /\ emitted = << >>
    /\ op = "init"
    /\ budget = [edits |-> MaxHistOps, moves |-> 0, replays |-> 0]
    /\ seq = [n_edits |-> 0, n_undos |-> 0, n_redos |-> 0,
              before |-> [lines |-> lines, pos |-> pos,
                          anchor_pos |-> anchor_pos, changed |-> FALSE],
              after |-> << >>, lost |-> FALSE]

\* an operation of the history, called where its precondition holds
Hist(name, s, lost) ==
    /\ ~failed
    /\ budget.edits > 0
    /\ Becomes(s)
    /\ op' = name
    /\ budget' = [budget EXCEPT !.edits = @ - 1]
    /\ seq' = [seq EXCEPT !.lost = lost]

HistAdd ==
    \E mod \in HistMods :
        Hist("add", call("history_add", St, << mod >>),
             seq.lost \/ undo_redo_count < 0)

HistUndo ==
    /\ can_undo(St)
    /\ Hist("undo", call("history_undo", St, << >>), seq.lost)

HistRedo ==
    /\ can_redo(St)
    /\ Hist("redo", call("history_redo", St, << >>), seq.lost)

HistClear == Hist("clear", call("history_clear", St, << >>), FALSE)

HistClearChanged ==
    Hist("clear_changed", call("clear_changed", St, << >>), FALSE)

\* the n-th modification of the undo-limit specification: the n-th
\* character typed on one line
typed(n) ==
    insert_modification(Range(Position(0, n - 1), Position(0, n)), << "x" >>)

\* the history s after add(typed(from)), ..., add(typed(to)), in this order
RECURSIVE history_adds(_, _, _)
history_adds(s, from, to) ==
    IF from > to THEN s
    ELSE IF from = to THEN history_add(s, typed(from))
    ELSE LET mid == (from + to) \div 2
             s1 == history_adds(s, from, mid)
         IN  IF s1.failed THEN s1 ELSE history_adds(s1, mid + 1, to)

\* the history after n add() calls on a new history (the other fields are
\* those of an editor on the document "a")
history_filled(n) ==
    history_adds([lines |-> << << "a" >> >>,
                  pos |-> Position(0, 0), anchor_pos |-> Position(0, 0),
                  move_pos_after_insert |-> TRUE,
                  undo_mods |-> << >>, redo_mods |-> << >>,
                  undo_redo_count |-> 0,
                  enable_history |-> TRUE, is_overwrite_mode |-> FALSE,
                  expand_tabs |-> FALSE, tab_size |-> 4,
                  up_down_saved_column |-> 0, viewport_height |-> 1,
                  failed |-> FALSE, probes |-> FALSE, emitted |-> << >>,
                  group |-> << >>], 1, n)

\* a history one add() short of the undo limit; seq.n_edits counts the
\* add() calls made so far, seq.n_undos the undo() calls not yet redone
InitLimit ==
    /\ LET h == history_filled(UndoLimit - 1)
       IN  /\ lines = h.lines
           /\ pos = h.pos
           /\ anchor_pos = h.anchor_pos
           /\ move_pos_after_insert = h.move_pos_after_insert
           /\ undo_mods = h.undo_mods
           /\ redo_mods = h.redo_mods
           /\ undo_redo_count = h.undo_redo_count
           /\ enable_history = h.enable_history
           /\ is_overwrite_mode = h.is_overwrite_mode
           /\ expand_tabs = h.expand_tabs
           /\ tab_size = h.tab_size
           /\ up_down_saved_column = h.up_down_saved_column
           /\ viewport_height = h.viewport_height
           /\ failed = h.failed
           /\ probes = h.probes
           /\ emitted = h.emitted
    /\ op = "init"
    /\ budget = [edits |-> MaxOverflow + 1, moves |-> 0, replays |-> 0]
    /\ seq = [n_edits |-> UndoLimit - 1, n_undos |-> 0, n_redos |-> 0,
              before |-> [lines |-> lines, pos |-> pos,
                          anchor_pos |-> anchor_pos, changed |-> FALSE],
              after |-> << >>]

\* add() calls with no undo outstanding, undo() and redo() at any time
LimitAdd ==
    /\ ~failed
    /\ budget.edits > 0
    /\ ~can_redo(St)
    /\ Becomes(call("history_add", St, << typed(seq.n_edits + 1) >>))
    /\ op' = "add"
    /\ budget' = [budget EXCEPT !.edits = @ - 1]
    /\ seq' = [seq EXCEPT !.n_edits = @ + 1]

LimitUndo ==
    /\ ~failed
    /\ can_undo(St)
    /\ Becomes(call("history_undo", St, << >>))
    /\ op' = "undo"
    /\ seq' = [seq EXCEPT !.n_undos = @ + 1]
    /\ UNCHANGED budget

LimitRedo ==
    /\ ~failed
    /\ can_redo(St)
    /\ Becomes(call("history_redo", St, << >>))
    /\ op' = "redo"
    /\ seq' = [seq EXCEPT !.n_undos = @ - 1]
    /\ UNCHANGED budget

\* the texts given to transaction::insert_characters
\* a history that is new or one add() short of the undo limit, with its
\* checkpoint followed by ghosts: seq.at numbers the current point of the
\* chain by the add() calls that lead to it, seq.base is the oldest point
\* undo() can still reach, seq.cp the point of the last clear_changed() (or
\* of construction), seq.lost that an add() discarded that point
InitMark ==
    /\ \E n \in { 0, UndoLimit - 1 } :
           LET h == history_filled(n)
           IN  /\ lines = h.lines
               /\ pos = h.pos
               /\ anchor_pos = h.anchor_pos
               /\ move_pos_after_insert = h.move_pos_after_insert
               /\ undo_mods = h.undo_mods
               /\ redo_mods = h.redo_mods
               /\ undo_redo_count = h.undo_redo_count
               /\ enable_history = h.enable_history
               /\ is_overwrite_mode = h.is_overwrite_mode
               /\ expand_tabs = h.expand_tabs
               /\ tab_size = h.tab_size
               /\ up_down_saved_column = h.up_down_saved_column
               /\ viewport_height = h.viewport_height
               /\ failed = h.failed
               /\ probes = h.probes
               /\ emitted = h.emitted
               /\ seq = [at |-> n, base |-> 0, cp |-> 0, lost |-> FALSE]
    /\ op = "init"
    /\ budget = [edits |-> MaxMarkOps, moves |-> 0, replays |-> 0]

Mark(name, s, ghost) ==
    /\ ~failed
    /\ budget.edits > 0
    /\ Becomes(s)
    /\ op' = name
    /\ budget' = [budget EXCEPT !.edits = @ - 1]
    /\ seq' = ghost

MarkAdd ==
    LET base == IF Len(undo_mods) = UndoLimit THEN seq.base + 1 ELSE seq.base
    IN  Mark("add", call("history_add", St, << typed(seq.at + 1) >>),
             [at |-> seq.at + 1, base |-> base, cp |-> seq.cp,
              lost |-> seq.lost \/ seq.at < seq.cp \/ seq.cp < base])

MarkUndo ==
    /\ can_undo(St)
    /\ Mark("undo", call("history_undo", St, << >>),
            [seq EXCEPT !.at = @ - 1])

MarkRedo ==
    /\ can_redo(St)
    /\ Mark("redo", call("history_redo", St, << >>),
            [seq EXCEPT !.at = @ + 1])

MarkClearChanged ==
    Mark("clear_changed", call("clear_changed", St, << >>),
         [seq EXCEPT !.cp = seq.at, !.lost = FALSE])

TransTexts == { << >>, << "x" >> }

\* the calls a client can make on a transaction over the buffer of s
TransSteps(s) ==
    { [kind |-> "insert", pos |-> p, chars |-> c, range |-> NoRange] :
          p \in Positions(s.lines), c \in TransTexts } \cup
    { [kind |-> "erase", pos |-> r.start, chars |-> << >>, range |-> r] :
          r \in Ranges(s.lines) }

transaction_step(s, k) ==
    IF k.kind = "insert"
    THEN call("transaction_insert_characters", s, << k.pos, k.chars >>)
    ELSE call("transaction_erase_characters", s, << k.range >>)

\* the call k records nothing: empty chars or an empty range
step_is_empty(k) ==
    IF k.kind = "insert" THEN k.chars = << >> ELSE k.range.start = k.range.end

\* a transaction over the buffer and a history, observed through the
\* signals; seq.steps holds the calls made on the last transaction
InitTrans ==
    /\ lines = << << "a" >> >>
    /\ pos \in Positions(lines)
    /\ anchor_pos = Position(0, 0)
    /\ move_pos_after_insert = TRUE
    /\ undo_mods = << >>
    /\ redo_mods = << >>
    /\ undo_redo_count = 0
    /\ enable_history = TRUE
    /\ is_overwrite_mode = FALSE
    /\ expand_tabs = FALSE
    /\ tab_size = 4
    /\ up_down_saved_column = 0
    /\ viewport_height = 1
    /\ failed = FALSE
    /\ probes = TRUE
    /\ emitted = << >>
    /\ op = "init"
    /\ budget = [edits |-> MaxTransOps, moves |-> 0, replays |-> 0]
    /\ seq = [n_edits |-> 0, n_undos |-> 0, n_redos |-> 0,
              before |-> [lines |-> lines, pos |-> pos,
                          anchor_pos |-> anchor_pos, changed |-> FALSE],
              after |-> << >>, steps |-> << >>]

Trans(name, s, steps) ==
    /\ ~failed
    /\ budget.edits > 0
    /\ Becomes(s)
    /\ op' = name
    /\ budget' = [budget EXCEPT !.edits = @ - 1]
    /\ seq' = [seq EXCEPT !.steps = steps]

\* transaction trans{text, history}; one call on it; ~transaction
TransactOne ==
    \E k1 \in TransSteps(St) :
        Trans("transaction",
              call("transaction_end", transaction_step(St, k1), << >>),
              << k1 >>)

\* transaction trans{text, history}; two calls on it; ~transaction
TransactTwo ==
    \E k1 \in TransSteps(St) :
        LET s1 == transaction_step(St, k1)
        IN  \E k2 \in TransSteps(s1) :
                Trans("transaction",
                      call("transaction_end", transaction_step(s1, k2), << >>),
                      << k1, k2 >>)

\* do_tab with Shift, whose transaction may record nothing
TransTabShift ==
    Trans("do_tab_shift", call("do_tab", St, << FALSE, TRUE >>), << >>)

\* undo() and redo() of the history between the transactions
TransUndo ==
    /\ ~failed
    /\ can_undo(St)
    /\ Becomes(call("history_undo", St, << >>))
    /\ op' = "undo"
    /\ UNCHANGED << budget, seq >>

TransRedo ==
    /\ ~failed
    /\ can_redo(St)
    /\ Becomes(call("history_redo", St, << >>))
    /\ op' = "redo"
    /\ UNCHANGED << budget, seq >>

\* set_pos_and_anchor called by a client with valid positions
BufSelect ==
    \E a \in Positions(lines), p \in Positions(lines) :
        Buf("select", call("set_pos_and_anchor", St, << a, p >>))

\* erase(insert(p, chars)): the range insert() returned is erased again
BufInsertErase ==
    \E p \in Positions(lines), chars \in BufTexts :
        Buf("insert_erase",
            call("text_erase", call("text_insert", St, << p, chars >>),
                 << insert_range(p, chars) >>))

\* the texts a buffer is constructed from, reset to and assigned
TextInits == { << >>, << "a" >>, << "a", NL, "b" >>, << NL >>, << CR >> }

\* a buffer constructed with some content, with the selection model at its
\* initial position
InitText ==
    /\ lines \in { split_chars_to_lines(chars) : chars \in TextInits }
    /\ pos = begin_pos
    /\ anchor_pos = begin_pos
    /\ move_pos_after_insert = TRUE
    /\ undo_mods = << >>
    /\ redo_mods = << >>
    /\ undo_redo_count = 0
    /\ enable_history = TRUE
    /\ is_overwrite_mode = FALSE
    /\ expand_tabs = FALSE
    /\ tab_size = 4
    /\ up_down_saved_column = 0
    /\ viewport_height = 1
    /\ failed = FALSE
    /\ probes = FALSE
    /\ emitted = << >>
    /\ op = "init"
    /\ budget = [edits |-> MaxTextOps, moves |-> 0, replays |-> 0]
    /\ seq = [n_edits |-> 0, n_undos |-> 0, n_redos |-> 0,
              before |-> [lines |-> lines, pos |-> pos,
                          anchor_pos |-> anchor_pos, changed |-> FALSE],
              after |-> << >>]

TextReset == \E chars \in TextInits : Buf("reset", text_reset(St, chars))

TextAssign == \E chars \in TextInits : Buf("assign", assign(St, chars))

TextClear == Buf("clear", clear(St))

\* range.hpp on its own: pos (and, for a range, pos .. anchor_pos) is the
\* argument, seq keeps the call (the argument, the inserted / erased range
\* and move_eq_pos), pos and anchor_pos become the result
GridPositions ==
    { Position(l, c) : l \in 0..MaxCoord, c \in 0..MaxCoord }

GridRanges ==
    { r \in { Range(s, e) : s \in GridPositions, e \in GridPositions } :
        range_ok(r) }

InitRange ==
    /\ lines = << << >> >>
    /\ pos \in GridPositions
    /\ anchor_pos \in GridPositions
    /\ move_pos_after_insert = TRUE
    /\ undo_mods = << >>
    /\ redo_mods = << >>
    /\ undo_redo_count = 0
    /\ enable_history = TRUE
    /\ is_overwrite_mode = FALSE
    /\ expand_tabs = FALSE
    /\ tab_size = 4
    /\ up_down_saved_column = 0
    /\ viewport_height = 1
    /\ failed = FALSE
    /\ probes = FALSE
    /\ emitted = << >>
    /\ op = "init"
    /\ budget = [edits |-> MaxAdjusts, moves |-> 0, replays |-> 0]
    /\ seq = [arg |-> Range(pos, anchor_pos),
              r |-> Range(begin_pos, begin_pos), move_eq_pos |-> TRUE]

\* a call name(arg, r, move_eq_pos) that returns res; constructing a range
\* whose start is after its end fails range's assertion
Adjust(name, res, r, move_eq_pos) ==
    /\ ~failed
    /\ budget.edits > 0
    /\ pos' = res.start
    /\ anchor_pos' = res.end
    /\ failed' = (name \in { "adjust_range_after_insert",
                             "adjust_range_after_erase" } /\ ~range_ok(res))
    /\ op' = name
    /\ budget' = [budget EXCEPT !.edits = @ - 1]
    /\ seq' = [arg |-> Range(pos, anchor_pos), r |-> r,
               move_eq_pos |-> move_eq_pos]
    /\ UNCHANGED << lines, move_pos_after_insert, undo_mods, redo_mods,
                    undo_redo_count, enable_history, is_overwrite_mode,
                    expand_tabs, tab_size, up_down_saved_column,
                    viewport_height, probes, emitted >>

AdjustPosAfterInsert ==
    \E r \in GridRanges, move_eq_pos \in BOOLEAN :
        Adjust("adjust_pos_after_insert",
               Range(adjust_pos_after_insert(pos, r, move_eq_pos), anchor_pos),
               r, move_eq_pos)

AdjustPosAfterErase ==
    \E r \in GridRanges :
        Adjust("adjust_pos_after_erase",
               Range(adjust_pos_after_erase(pos, r), anchor_pos), r, TRUE)

AdjustRangeAfterInsert ==
    /\ PosLeq(pos, anchor_pos)
    /\ \E r \in GridRanges :
          Adjust("adjust_range_after_insert",
                 adjust_range_after_insert(Range(pos, anchor_pos), r), r, TRUE)

AdjustRangeAfterErase ==
    /\ PosLeq(pos, anchor_pos)
    /\ \E r \in GridRanges :
          Adjust("adjust_range_after_erase",
                 adjust_range_after_erase(Range(pos, anchor_pos), r), r, TRUE)

\* adjust_pos_after_erase(adjust_pos_after_insert(pos, r, move_eq_pos), r)
AdjustPosAfterInsertErase ==
    \E r \in GridRanges, move_eq_pos \in BOOLEAN :
        Adjust("insert_erase",
               Range(adjust_pos_after_erase(
                         adjust_pos_after_insert(pos, r, move_eq_pos), r),
                     anchor_pos),
               r, move_eq_pos)

\* adjust_pos_after_insert applied to two positions with one range and flag
AdjustBothAfterInsert ==
    \E r \in GridRanges, move_eq_pos \in BOOLEAN :
        Adjust("insert_both",
               [start |-> adjust_pos_after_insert(pos, r, move_eq_pos),
                end |-> adjust_pos_after_insert(anchor_pos, r, move_eq_pos)],
               r, move_eq_pos)

\* adjust_pos_after_erase applied to two positions with one range
AdjustBothAfterErase ==
    \E r \in GridRanges :
        Adjust("erase_both",
               [start |-> adjust_pos_after_erase(pos, r),
                end |-> adjust_pos_after_erase(anchor_pos, r)],
               r, TRUE)

NextRange ==
    \/ AdjustPosAfterInsert \/ AdjustPosAfterErase
    \/ AdjustRangeAfterInsert \/ AdjustRangeAfterErase
    \/ AdjustPosAfterInsertErase
    \/ AdjustBothAfterInsert \/ AdjustBothAfterErase

SpecRange == InitRange /\ [][NextRange]_vars

\* the cursor moved through a document by the keys of the controller, with
\* any viewport height. seq keeps the arguments of the last action (arg),
\* the column the current run of do_up / do_down started with (run, -1 when
\* it is not known) and whether the last action other than do_up / do_down
\* moved the cursor or changed the buffer (fresh)
MoveDocs ==
    { << << "a", "b" >>, << >>, << "a", SPACE, "{", "x", SPACE >> >>,
      << << >>, << SPACE, "a", "{", "{", SPACE, TAB, "b" >> >> }

Vertical == { "do_up", "do_down" }

InitMove ==
    /\ lines \in MoveDocs
    /\ pos \in Positions(lines)
    /\ anchor_pos = pos
    /\ move_pos_after_insert = TRUE
    /\ undo_mods = << >>
    /\ redo_mods = << >>
    /\ undo_redo_count = 0
    /\ enable_history = TRUE
    /\ is_overwrite_mode = FALSE
    /\ expand_tabs = FALSE
    /\ tab_size = 4
    /\ up_down_saved_column = 0
    /\ viewport_height \in 0 .. MaxHeight
    /\ failed = FALSE
    /\ probes = FALSE
    /\ emitted = << >>
    /\ op = "init"
    /\ budget = [edits |-> 0, moves |-> MaxSteps, replays |-> 0]
    /\ seq = [run |-> -1, fresh |-> TRUE, arg |-> << >>]

Step(name, s, arg) ==
    /\ ~failed
    /\ budget.moves > 0
    /\ Becomes(s)
    /\ op' = name
    /\ budget' = [budget EXCEPT !.moves = @ - 1]
    /\ seq' = IF name \in Vertical
              THEN [run |-> IF op \in Vertical THEN seq.run
                            ELSE IF seq.fresh THEN pos.column
                            ELSE -1,
                    fresh |-> FALSE, arg |-> arg]
              ELSE [run |-> -1,
                    fresh |-> (s.pos # pos \/ s.lines # lines), arg |-> arg]

MoveLeft ==
    \E ctrl, shift \in BOOLEAN :
        Step("do_left", call("do_left", St, << ctrl, shift >>),
             << ctrl, shift >>)

MoveRight ==
    \E ctrl, shift \in BOOLEAN :
        Step("do_right", call("do_right", St, << ctrl, shift >>),
             << ctrl, shift >>)

MoveUp ==
    \E shift \in BOOLEAN :
        Step("do_up", call("do_up", St, << FALSE, shift >>),
             << FALSE, shift >>)

MoveDown ==
    \E shift \in BOOLEAN :
        Step("do_down", call("do_down", St, << FALSE, shift >>),
             << FALSE, shift >>)

MoveHome ==
    \E shift \in BOOLEAN :
        Step("do_home", call("do_home", St, << FALSE, shift >>),
             << FALSE, shift >>)

MoveEnd ==
    \E shift \in BOOLEAN :
        Step("do_end", call("do_end", St, << FALSE, shift >>),
             << FALSE, shift >>)

MovePageUp ==
    \E shift \in BOOLEAN :
        Step("do_page_up", call("do_page_up", St, << FALSE, shift >>),
             << FALSE, shift >>)

MovePageDown ==
    \E shift \in BOOLEAN :
        Step("do_page_down", call("do_page_down", St, << FALSE, shift >>),
             << FALSE, shift >>)

MoveChar == Step("do_char", call("do_char", St, << "x" >>), << "x" >>)

MoveBackspace ==
    Step("do_backspace", call("do_backspace", St, << FALSE, FALSE >>),
         << FALSE, FALSE >>)

NextMove ==
    \/ MoveLeft \/ MoveRight \/ MoveUp \/ MoveDown \/ MoveHome \/ MoveEnd
    \/ MovePageUp \/ MovePageDown \/ MoveChar \/ MoveBackspace

SpecMove == InitMove /\ [][NextMove]_vars

Editing ==
    \/ DoChar \/ DoEnter \/ DoTab \/ DoDelete \/ DoBackspace \/ Cut \/ Paste
    \/ Undo \/ Redo
    \/ DoInsert \/ DoBeforeSave

Navigation ==
    \/ DoLeft \/ DoRight \/ DoUp \/ DoDown \/ DoHome \/ DoEnd
    \/ DoPageUp \/ DoPageDown \/ SelectAll

Next == Editing

NextNav == Editing \/ Navigation

NextReplace == ClientReplace \/ Undo \/ Redo

NextBuf ==
    \/ BufInsert \/ BufErase \/ BufReplace \/ BufInsertErase \/ BufSelect
    \/ BufInsertNothing \/ BufEraseNothing

NextText ==
    \/ BufInsert \/ BufErase \/ BufReplace
    \/ TextReset \/ TextAssign \/ TextClear

NextLimit == LimitAdd \/ LimitUndo \/ LimitRedo

NextTrans ==
    TransactOne \/ TransactTwo \/ TransTabShift \/ TransUndo \/ TransRedo

NextHist ==
    HistAdd \/ HistUndo \/ HistRedo \/ HistClear \/ HistClearChanged

NextMark == MarkAdd \/ MarkUndo \/ MarkRedo \/ MarkClearChanged

NextNum == NumInsert \/ NumErase

NextView == ViewInsert \/ ViewErase \/ ViewSelect

NextSel == SelSet \/ SelInsert \/ SelErase

Spec == Init /\ [][Next]_vars

SpecNav == InitNav /\ [][NextNav]_vars

SpecReplace == Init /\ [][NextReplace]_vars

SpecBuf == InitBuf /\ [][NextBuf]_vars

SpecHist == InitHist /\ [][NextHist]_vars

SpecText == InitText /\ [][NextText]_vars

SpecLimit == InitLimit /\ [][NextLimit]_vars

SpecMark == InitMark /\ [][NextMark]_vars

SpecNum == InitNum /\ [][NextNum]_vars

SpecView == InitView /\ [][NextView]_vars

SpecSel == InitSel /\ [][NextSel]_vars

SpecTrans == InitTrans /\ [][NextTrans]_vars

(***************************************************************************)
(* The properties                                                          *)
(***************************************************************************)
EditOps ==
    { "do_char", "do_enter", "do_tab", "do_delete", "do_backspace", "cut",
      "paste" }

Last(q) == q[Len(q)]

Front(q) == SubSeq(q, 1, Len(q) - 1)

\* n editing actions that changed the buffer, then exactly n undos
UndoneAll ==
    ~failed /\ seq.n_edits > 0 /\ seq.n_undos = seq.n_edits /\ seq.n_redos = 0

\* C1: after n editing actions that change the buffer, followed by exactly n
\* undo() calls, the buffer holds the text it held before the actions.
C1_UndoRestoresContent == UndoneAll => lines = seq.before.lines

\* C2: after one editing action that changes the buffer, one undo() and one
\* redo() the buffer holds the text the action left (a block indent made by
\* do_tab is one such action).
C2_UndoRedoRestoresContent ==
    (~failed /\ seq.n_edits = 1 /\ seq.n_undos = 1 /\ seq.n_redos = 1)
        => lines = seq.after

\* C3: an editing action that changes the buffer adds exactly one entry to
\* the undo list, whatever the selection and the overwrite mode are.
C3_OneEntryPerEdit ==
    [][(op' \in EditOps /\ ~failed' /\ lines' # lines)
          => Len(undo_mods') = Len(undo_mods) + 1]_vars

\* C4 as stated: after n editing actions and n undo() calls pos and
\* anchor_pos have the values they had before the actions.
C4_UndoRestoresSelection ==
    UndoneAll => pos = seq.before.pos /\ anchor_pos = seq.before.anchor_pos

\* where perform_undo leaves the cursor: at the start of an undone Insert,
\* at the end of an undone Erase, for a Group where its last member leaves it
RECURSIVE UndoCursor(_)
UndoCursor(mod) ==
    CASE mod.kind = "insert" -> mod.range.start
      [] mod.kind = "erase" -> mod.range.end
      [] mod.kind = "group" -> UndoCursor(Last(mod.mods))

\* C4 amended: an undo() that replays an entry and completes leaves the
\* selection collapsed (pos = anchor_pos) at the place of the undone
\* modification: the start of an Insert, the end of an Erase. It does not
\* bring back the selection the editing action started from.
C4_UndoCollapsesSelection ==
    [][(op' = "undo" /\ can_undo(St) /\ ~failed')
          => pos' = anchor_pos' /\ pos' = UndoCursor(Last(undo_mods))]_vars

\* C4 happens: one editing action was undone, the text is back, and the
\* selection is collapsed somewhere else than it was
C4_Witness ==
    /\ UndoneAll
    /\ op = "undo"
    /\ seq.n_edits = 1
    /\ lines = seq.before.lines
    /\ seq.before.pos # seq.before.anchor_pos
    /\ pos = anchor_pos
    /\ pos # seq.before.pos

\* C5: starting with changed() = false, after n editing actions and n
\* undo() calls changed() is false again.
C5_UndoRestoresUnchanged ==
    (UndoneAll /\ ~seq.before.changed) => ~changed(St)

\* C6: undoing a Replace leaves old_chars over its range, redoing it leaves
\* new_chars over its range.
C6_ReplaceUndoRedo ==
    [][/\ (op' = "undo" /\ can_undo(St) /\ ~failed'
              /\ Last(undo_mods).kind = "replace")
          => characters_str(lines', Last(undo_mods).range)
                 = Last(undo_mods).old_chars
       /\ (op' = "redo" /\ can_redo(St) /\ ~failed'
              /\ Last(redo_mods).kind = "replace")
          => characters_str(lines', Last(redo_mods).range)
                 = Last(redo_mods).chars]_vars

\* C7: undo() with can_undo() moves the last undo entry to the redo list,
\* redo() with can_redo() moves the last redo entry to the undo list, and
\* nothing the replay does to the buffer (the members of a Group included)
\* is added to either list.
C7_ReplayMovesOneEntry ==
    [][/\ (op' = "undo" /\ can_undo(St) /\ ~failed')
          => /\ undo_mods' = Front(undo_mods)
             /\ redo_mods' = Append(redo_mods, Last(undo_mods))
       /\ (op' = "redo" /\ can_redo(St) /\ ~failed')
          => /\ redo_mods' = Front(redo_mods)
             /\ undo_mods' = Append(undo_mods, Last(redo_mods))]_vars

\* C7 happens: a Group of two members has just been undone
C7_Witness ==
    /\ op = "undo"
    /\ ~failed
    /\ redo_mods # << >>
    /\ Last(redo_mods).kind = "group"
    /\ Len(Last(redo_mods).mods) >= 2
    /\ lines # seq.after

\* C8: no sequence of navigation, editing, undo and redo actions, from a
\* valid state and with tab_size >= 1, fails a precondition check.
C8_NoPreconditionFails == ~failed

\* C9: after any sequence of insert, erase and replace calls on the buffer
\* with valid arguments, pos and anchor_pos are valid positions.
C9_SelectionStaysValid ==
    pos_is_valid(lines, pos) /\ pos_is_valid(lines, anchor_pos)

\* C9 happens: the second of two buffer operations was an erase that made
\* the selection model move the selection
C9_Witness ==
    /\ op = "erase"
    /\ budget.edits = 0
    /\ \E i \in 1 .. Len(emitted) : emitted[i].sig = "changed"
    /\ pos # anchor_pos

IsBufferSignal(e) == e.sig # "changed"

BufferSignals(log) == SelectSeq(log, IsBufferSignal)

\* the three notifications of one mutation, in order, with one range: the
\* first sees the text before the mutation, the other two the text after
\* it, and the last is sent once the after-subscriber (the controller
\* resetting its saved column) has run
Notified(ev, before, after, after_2, old_lines, new_lines, old_column) ==
    /\ Len(ev) = 3
    /\ ev[1].sig = before /\ ev[1].text = old_lines
    /\ ev[2].sig = after /\ ev[2].text = new_lines
    /\ ev[3].sig = after_2 /\ ev[3].text = new_lines
    /\ ev[1].range = ev[2].range /\ ev[2].range = ev[3].range
    /\ ev[1].saved_column = old_column
    /\ ev[2].saved_column = old_column
    /\ ev[3].saved_column = 0

\* C10: an insert of non-empty chars emits exactly one before_inserted while
\* the buffer is as before, then mutates, then emits one after_inserted and
\* one after_inserted_2 on the mutated buffer, all with the same range, the
\* _2 one after the after_inserted subscribers; an erase of a non-empty
\* range does the same with before_erased, after_erased, after_erased_2.
C10_NotificationProtocol ==
    [][/\ op' = "insert"
          => Notified(BufferSignals(emitted'), "before_inserted",
                      "after_inserted", "after_inserted_2", lines, lines',
                      up_down_saved_column)
       /\ (op' = "erase" /\ lines' # lines)
          => Notified(BufferSignals(emitted'), "before_erased",
                      "after_erased", "after_erased_2", lines, lines',
                      up_down_saved_column)]_vars

\* C10 happens: an insert changed the text and the selection followed it
\* after the three notifications
C10_Witness ==
    /\ op = "insert"
    /\ Len(emitted) = 4
    /\ emitted[1].text # lines
    /\ emitted[3].saved_column # emitted[2].saved_column
    /\ emitted[4].sig = "changed"

\* the number of emissions of signal sig in the log of one operation
Count(log, sig) == Len(SelectSeq(log, LAMBDA e : e.sig = sig))

\* C11: an operation of the history (add, undo, redo, clear) emits
\* can_undo_changed only if can_undo() differs before and after it,
\* can_redo_changed only if can_redo() differs and changed_changed only if
\* changed() differs.
C11_SignalsOnlyOnTransition ==
    [][ /\ Count(emitted', "can_undo_changed") > 0
            => (undo_mods' # << >>) # (undo_mods # << >>)
        /\ Count(emitted', "can_redo_changed") > 0
            => (redo_mods' # << >>) # (redo_mods # << >>)
        /\ Count(emitted', "changed_changed") > 0
            => (undo_redo_count' # 0) # (undo_redo_count # 0) ]_vars

\* C12: an operation of the history (add, undo, redo, clear, clear_changed)
\* that changes changed() emits changed_changed exactly once, one that
\* changes can_undo() emits can_undo_changed exactly once and one that
\* changes can_redo() emits can_redo_changed exactly once.
C12_EveryTransitionSignalledOnce ==
    [][ /\ (undo_mods' # << >>) # (undo_mods # << >>)
            => Count(emitted', "can_undo_changed") = 1
        /\ (redo_mods' # << >>) # (redo_mods # << >>)
            => Count(emitted', "can_redo_changed") = 1
        /\ (undo_redo_count' # 0) # (undo_redo_count # 0)
            => Count(emitted', "changed_changed") = 1 ]_vars

\* C13: once add() has run while the counter was negative, changed() is true
\* after that add and after every later add(), undo() and redo(), until
\* clear_changed() or clear() runs.
C13_LostCheckpointStaysChanged == seq.lost => undo_redo_count # 0

\* C13 happens: an undo() ran after an add() made below the checkpoint
C13_Witness ==
    /\ seq.lost
    /\ op = "undo"
    /\ undo_redo_count = INT_MAX

\* C14: the undo list never holds more than 1000 entries; after more than
\* 1000 add() calls with no undo in between the entries that can be undone
\* are exactly the 1000 most recent ones, newest first, so can_undo() is
\* true before the first undo() and false after 1000 of them.
C14_UndoListBounded ==
    /\ Len(undo_mods) <= UndoLimit
    /\ seq.n_edits > UndoLimit =>
          /\ undo_mods = [i \in 1 .. UndoLimit - seq.n_undos |->
                             typed(seq.n_edits - UndoLimit + i)]
          /\ (seq.n_undos = 0 => can_undo(St))
          /\ (seq.n_undos = UndoLimit => ~can_undo(St))

\* C14 happens: more than 1000 adds were made and 1000 undo() calls emptied
\* the undo list
C14_Witness ==
    /\ seq.n_edits > UndoLimit
    /\ seq.n_undos = UndoLimit
    /\ op = "undo"
    /\ undo_mods = << >>

HistorySignals == { "can_undo_changed", "can_redo_changed", "changed_changed" }

\* the history is as it was and none of its signals was emitted
HistoryUntouched ==
    /\ undo_mods' = undo_mods
    /\ redo_mods' = redo_mods
    /\ undo_redo_count' = undo_redo_count
    /\ \A i \in DOMAIN emitted' : emitted'[i].sig \notin HistorySignals

\* one Group entry holding n modifications was added to the history
GroupAdded(n) ==
    /\ undo_mods' = Append(undo_mods, undo_mods'[Len(undo_mods')])
    /\ undo_mods'[Len(undo_mods')].kind = "group"
    /\ Len(undo_mods'[Len(undo_mods')].mods) = n
    /\ redo_mods' = << >>

\* C15: a transaction on which every insert_characters got empty chars and
\* every erase_characters an empty range (and do_tab with Shift at column 0
\* with an empty selection) leaves the undo list, the redo list and the
\* counter unchanged and emits no history signal; a transaction that
\* recorded modifications adds exactly one Group entry holding them.
C15_EmptyTransactionLeavesHistory ==
    [][ /\ op' = "transaction" =>
              LET recorded == SelectSeq(seq'.steps,
                                        LAMBDA k : ~step_is_empty(k))
              IN  IF recorded = << >>
                  THEN HistoryUntouched /\ lines' = lines
                  ELSE GroupAdded(Len(recorded))
        /\ (op' = "do_tab_shift" /\ pos = anchor_pos /\ pos.column = 0)
              => HistoryUntouched /\ lines' = lines ]_vars

\* C15 happens: a transaction of two calls that recorded nothing ended on a
\* history that holds an entry
C15_Witness ==
    /\ op = "transaction"
    /\ Len(seq.steps) = 2
    /\ \A i \in 1 .. 2 : step_is_empty(seq.steps[i])
    /\ undo_mods # << >>

\* C16: for every valid position p and every text, erase(insert(p, text))
\* leaves every line of the buffer, and so its end_pos, as before the
\* insert.
C16_EraseUndoesInsert ==
    [][ op' = "insert_erase" =>
            /\ lines' = lines
            /\ end_pos(lines') = end_pos(lines) ]_vars

\* C16 happens: a text of two lines was inserted inside a line and erased
\* again
C16_Witness ==
    /\ op = "insert_erase"
    /\ Len(emitted) >= 6
    /\ emitted[1].sig = "before_inserted"
    /\ emitted[1].range.start.column > 0
    /\ emitted[1].range.end.line > emitted[1].range.start.line
    /\ \E i \in 1 .. Len(emitted) : emitted[i].sig = "after_erased_2"

\* C17: after construction with empty or non-empty content and after any
\* sequence of insert, erase, replace, reset, assign and clear the buffer
\* has at least one line.
C17_AtLeastOneLine == Len(lines) >= 1

\* C17 happens: everything was erased from a buffer that held text
C17_Witness ==
    /\ op = "clear"
    /\ seq.before.lines # << << >> >>
    /\ lines = << << >> >>

\* C18: after a buffer erase of a range with range.start < pos <= range.end,
\* pos being the cursor just before the erase, the cursor is at range.start.
C18_CursorInErasedRangeCollapses ==
    [][ (/\ op' = "erase"
         /\ emitted' # << >>
         /\ PosLess(emitted'[1].range.start, pos)
         /\ PosLeq(pos, emitted'[1].range.end))
            => pos' = emitted'[1].range.start ]_vars

\* C18 happens: the first operation erased a range that ends after the line
\* of its start, with the cursor inside it
C18_Witness ==
    /\ op = "erase"
    /\ budget.edits = MaxBufOps - 1
    /\ emitted # << >>
    /\ PosLess(emitted[1].range.start, seq.before.pos)
    /\ PosLeq(seq.before.pos, emitted[1].range.end)
    /\ seq.before.pos.line > emitted[1].range.start.line
    /\ pos = emitted[1].range.start

\* C19: set_pos_and_anchor(a, p) emits changed exactly once when (p, a)
\* differs from (pos, anchor_pos) and emits nothing and changes nothing when
\* it is equal; one buffer insert or erase emits changed at most once, and
\* only if pos or anchor_pos changed.
C19_ChangedOncePerNewSelection ==
    [][ /\ op' \in { "select", "insert", "erase" }
            => Count(emitted', "changed") =
                   IF pos' # pos \/ anchor_pos' # anchor_pos THEN 1 ELSE 0
        /\ (op' = "select" /\ pos' = pos /\ anchor_pos' = anchor_pos)
            => /\ emitted' = << >>
               /\ UNCHANGED << lines, move_pos_after_insert, undo_mods,
                               redo_mods, undo_redo_count,
                               up_down_saved_column, failed >> ]_vars

\* C19 happens: set_pos_and_anchor was called with a new pair and changed
\* was emitted
C19_Witness ==
    /\ op = "select"
    /\ Len(emitted) = 1
    /\ emitted[1].sig = "changed"
    /\ pos # anchor_pos

\* C20: a buffer insert that starts at the cursor leaves the cursor where it
\* is when move_pos_after_insert is false and moves it to the end of the
\* inserted range when move_pos_after_insert is true.
C20_InsertAtCursor ==
    [][ (op' = "insert" /\ emitted'[1].range.start = pos)
            => pos' = IF move_pos_after_insert
                      THEN emitted'[1].range.end
                      ELSE pos ]_vars

\* C20 happens: with move_pos_after_insert false the first operation
\* inserted two lines at the cursor and the cursor stayed
C20_Witness ==
    /\ op = "insert"
    /\ budget.edits = MaxBufOps - 1
    /\ ~move_pos_after_insert
    /\ emitted[1].range.start = seq.before.pos
    /\ emitted[1].range.end.line > emitted[1].range.start.line
    /\ pos = seq.before.pos

\* C21: adjust_pos_after_insert never returns a position smaller than its
\* argument when the argument is at or after the start of the inserted range,
\* and adjust_pos_after_erase never returns a position greater than its
\* argument when the argument is after the end of the erased range
C21_AdjustedPosMonotone ==
    /\ (op = "adjust_pos_after_insert" /\ PosLeq(seq.r.start, seq.arg.start))
          => PosLeq(seq.arg.start, pos)
    /\ (op = "adjust_pos_after_erase" /\ PosLess(seq.r.end, seq.arg.start))
          => PosLeq(pos, seq.arg.start)

\* C21 happens: an insertion that starts at the position moved it forward
C21_Witness ==
    /\ op = "adjust_pos_after_insert"
    /\ seq.r.start = seq.arg.start
    /\ seq.move_eq_pos
    /\ PosLess(seq.arg.start, pos)

\* C22: adjust_range_after_erase(rng, r) is adjust_pos_after_erase applied to
\* both ends of rng, and a range that lies within the erased range becomes
\* the empty range at the start of the erased range
C22_ErasedRangeCollapses ==
    op = "adjust_range_after_erase" =>
        /\ pos = adjust_pos_after_erase(seq.arg.start, seq.r)
        /\ anchor_pos = adjust_pos_after_erase(seq.arg.end, seq.r)
        /\ ~failed
        /\ (PosLeq(seq.r.start, seq.arg.start)
            /\ PosLeq(seq.arg.end, seq.r.end))
              => (pos = seq.r.start /\ anchor_pos = seq.r.start)

\* C22 happens: a non-empty range strictly inside the erased range collapsed
C22_Witness ==
    /\ op = "adjust_range_after_erase"
    /\ PosLess(seq.r.start, seq.arg.start)
    /\ PosLess(seq.arg.start, seq.arg.end)
    /\ PosLess(seq.arg.end, seq.r.end)
    /\ pos = seq.r.start
    /\ anchor_pos = seq.r.start

\* C23: insert(pos, chars) with no characters returns the range {pos, pos},
\* erase(range) with an empty range returns, and neither changes the buffer
\* (nor anything its observers keep) or emits a signal
C23_NothingToDoChangesNothing ==
    [][op' \in { "insert_nothing", "erase_nothing" } =>
          /\ lines' = lines
          /\ emitted' = << >>
          /\ ~failed'
          /\ pos' = pos
          /\ anchor_pos' = anchor_pos
          /\ up_down_saved_column' = up_down_saved_column
          /\ undo_mods' = undo_mods
          /\ redo_mods' = redo_mods
          /\ (op' = "insert_nothing" => seq'.ret = seq'.arg)]_vars

\* C23 happens: insert() was called with no characters after the buffer had
\* been changed
C23_Witness ==
    /\ op = "insert_nothing"
    /\ seq.ret = seq.arg
    /\ lines \notin BufDocs
    /\ emitted = << >>

\* the number of characters of the text before position p
Offset(ls, p) == Len(characters_str(ls, Range(begin_pos, p)))

\* the characters cs without the i-th
Without(cs, i) == SubSeq(cs, 1, i - 1) \o SubSeq(cs, i + 1, Len(cs))

\* nothing of buffer, selection and history changes in this step
NothingChanges ==
    /\ lines' = lines
    /\ pos' = pos
    /\ anchor_pos' = anchor_pos
    /\ undo_mods' = undo_mods
    /\ redo_mods' = redo_mods
    /\ undo_redo_count' = undo_redo_count

\* C24: with an empty selection do_delete removes exactly the one character
\* (or line break) at the cursor and do_backspace the one before it; at the
\* end of the document (do_delete) and at its start (do_backspace) buffer,
\* selection and history stay as they were
C24_DeleteRemovesOneCharacter ==
    [][/\ (op' = "do_delete" /\ pos = anchor_pos) =>
             IF pos = end_pos(lines)
             THEN NothingChanges
             ELSE /\ ~failed'
                  /\ string(lines') =
                        Without(string(lines), Offset(lines, pos) + 1)
       /\ (op' = "do_backspace" /\ pos = anchor_pos) =>
             IF pos = begin_pos
             THEN NothingChanges
             ELSE /\ ~failed'
                  /\ string(lines') =
                        Without(string(lines), Offset(lines, pos))]_vars

\* C24 happens: do_delete, called with an empty selection before the end of
\* the document, removed one character
C24_Witness ==
    /\ op = "do_delete"
    /\ seq.n_edits = 1
    /\ seq.before.pos = seq.before.anchor_pos
    /\ seq.before.pos # end_pos(seq.before.lines)
    /\ Len(string(lines)) = Len(string(seq.before.lines)) - 1

DedentCase(c) ==
    LET cline == line_str(lines, pos.line) IN
    /\ c = "}"
    /\ pos.line # 0
    /\ cline # << >>
    /\ find_first_not_of(cline) = NPOS

Unit == IF expand_tabs THEN Repeat(SPACE, tab_size) ELSE << TAB >>

\* C26: do_tab without Shift on a selection that spans the lines L1 .. L2,
\* L1 < L2, inserts exactly one indent unit at column 0 of every line
\* L1 .. L2, changes nothing else in the buffer and leaves pos and anchor_pos
\* on their lines, their columns increased by the length of the unit
C26_BlockIndentAddsOneUnit ==
    [][(op' = "do_tab" /\ seq'.arg = << FALSE >>
        /\ pos.line # anchor_pos.line) =>
          LET sel == selected_range_of(anchor_pos, pos) IN
          /\ ~failed'
          /\ lines' = [l \in 1 .. Len(lines) |->
                          IF sel.start.line + 1 <= l /\ l <= sel.end.line + 1
                          THEN Unit \o lines[l]
                          ELSE lines[l]]
          /\ pos' = Position(pos.line, pos.column + Len(Unit))
          /\ anchor_pos' = Position(anchor_pos.line,
                                    anchor_pos.column + Len(Unit))]_vars

\* C26 happens: the lines of a selection that spans lines were indented
\* with spaces
C26_Witness ==
    /\ op = "do_tab"
    /\ seq.arg = << FALSE >>
    /\ seq.n_edits >= 1
    /\ expand_tabs
    /\ pos.line # anchor_pos.line
    /\ \E l \in 1 .. Len(lines) :
          /\ l - 1 \in { pos.line, anchor_pos.line }
          /\ Len(lines[l]) >= tab_size
          /\ SubSeq(lines[l], 1, tab_size) = Repeat(SPACE, tab_size)

Min(a, b) == IF a <= b THEN a ELSE b

Max(a, b) == IF a >= b THEN a ELSE b

C28_PageMovesClamped ==
    [][op' \in { "do_page_down", "do_page_up" } =>
          LET h == viewport_height
              new_line == IF op' = "do_page_down"
                          THEN Min(pos.line + h, lines_size(lines) - 1)
                          ELSE Max(pos.line - h, 0)
          IN  /\ ~failed'
              /\ lines' = lines
              /\ pos' = Position(new_line,
                                 Min(pos.column, line_size(lines, new_line)))
              /\ pos_is_valid(lines', pos')]_vars

\* C28 happens: with Shift held, do_page_down moved the cursor from line 0
\* by a viewport higher than the document to the last line, line 2
C28_Witness ==
    /\ op = "do_page_down"
    /\ seq.arg = << FALSE, TRUE >>
    /\ budget.moves = MaxSteps - 1
    /\ viewport_height = MaxHeight
    /\ lines_size(lines) = 3
    /\ anchor_pos.line = 0
    /\ pos.line = 2

\* the line "line of text ((*sd" of the tests, its letters written as "a" and
\* its punctuation as "{"
WordsLine ==
    << "a", "a", "a", "a", SPACE, "a", "a", SPACE, "a", "a", "a", "a", SPACE,
       "{", "{", "{", "a", "a" >>

\* C29: do_right with Ctrl, from a cursor that is not at the end of its line,
\* keeps the cursor on its line, strictly increases its column and stops at
\* the end of the line or on a character that is not white space; in
\* "line of text ((*sd" it goes from column 8 to column 13
C29_NextWordStaysOnLine ==
    [][(op' = "do_right" /\ seq'.arg[1]
        /\ pos.column # line_size(lines, pos.line)) =>
          /\ ~failed'
          /\ lines' = lines
          /\ pos'.line = pos.line
          /\ pos'.column > pos.column
          /\ pos'.column <= line_size(lines, pos.line)
          /\ \/ pos'.column = line_size(lines, pos.line)
             \/ ~char_is_space(char_at(lines, pos'))
          /\ calc_next_word_pos_in_line(
                 chars_from(<< WordsLine >>, 0, 8), TRUE) + 8 = 13]_vars

\* C29 happens: Ctrl+Right stopped on the last word of the line " a{{ \tb",
\* which it reaches from the punctuation or the white space before it
C29_Witness ==
    /\ op = "do_right"
    /\ seq.arg = << TRUE, FALSE >>
    /\ budget.moves = MaxSteps - 1
    /\ lines_size(lines) = 2
    /\ pos = Position(1, 6)
    /\ up_down_saved_column = 0

\* C30: do_before_save is idempotent: called again right after itself it
\* changes nothing; after it the cursor's line is empty if it consisted of
\* spaces and tabs only, and the buffer is as it was otherwise
C30_BeforeSaveStripsOnce ==
    [][op' = "do_before_save" =>
          LET cline == line_str(lines, pos.line)
              blank == \A i \in 1 .. Len(cline) : cline[i] \in { SPACE, TAB }
          IN  /\ ~failed'
              /\ lines' = IF blank
                          THEN [lines EXCEPT ![pos.line + 1] = << >>]
                          ELSE lines
              /\ pos'.line = pos.line
              /\ op = "do_before_save" => NothingChanges]_vars

\* C30 happens: do_before_save, the only action so far, removed the two
\* spaces the cursor's line consisted of
C30_Witness ==
    /\ op = "do_before_save"
    /\ budget.edits = MaxEdits - 1
    /\ line_str(lines, pos.line) = << >>
    /\ Len(undo_mods) = 1
    /\ undo_mods[1].kind = "erase"
    /\ undo_mods[1].chars = << SPACE, SPACE >>

\* C31, as claimed: every call of do_insert flips the overwrite mode and
\* changes neither the buffer, the selection nor the history
C31_InsertKeyFlips ==
    [][op' = "do_insert" =>
          /\ is_overwrite_mode' = ~is_overwrite_mode
          /\ NothingChanges]_vars

\* C31, amended: a call of do_insert with neither Ctrl nor Shift flips the
\* overwrite mode, a call with Ctrl or Shift leaves it as it is, and no call
\* changes the buffer, the selection or the history
C31_PlainInsertKeyFlips ==
    [][op' = "do_insert" =>
          /\ ~failed'
          /\ is_overwrite_mode' = IF seq'.arg[1] \/ seq'.arg[2]
                                  THEN is_overwrite_mode
                                  ELSE ~is_overwrite_mode
          /\ NothingChanges]_vars

\* C31 happens: the plain Insert key switched the overwrite mode on
C31_Witness ==
    /\ op = "do_insert"
    /\ seq.arg = << FALSE, FALSE >>
    /\ budget.edits = MaxEdits - 1
    /\ expand_tabs
    /\ is_overwrite_mode

\* C32: after an editing action of the controller that changes the content
\* of the buffer, outside the replay of undo and redo, can_redo() is false
C32_EditClearsRedo ==
    [][(op' \in EditOps /\ lines' # lines) => redo_mods' = << >>]_vars


\* C33: for a history driven by add, undo, redo and clear_changed, past the
\* undo limit as well, changed() is false exactly when the current point of
\* the chain is the point of the last clear_changed() (or of construction)
\* and no add() has discarded that point
C33_ChangedIffOffCheckpoint ==
    ~failed => (~changed(St) <=> (seq.at = seq.cp /\ ~seq.lost))

\* C33 happens: past the undo limit a checkpoint was set, left by an add()
\* and reached again by an undo()
C33_Witness ==
    /\ op = "undo"
    /\ seq.base > 0
    /\ seq.cp > UndoLimit
    /\ seq.at = seq.cp
    /\ ~changed(St)


\* C34: every before_inserted, after_inserted, after_inserted_2,
\* before_erased, after_erased and after_erased_2 notification carries a
\* range that is not empty (start < end)
C34_NotifiedRangesNotEmpty ==
    \A i \in 1..Len(emitted) :
        emitted[i].sig \in { "before_inserted", "after_inserted",
                             "after_inserted_2", "before_erased",
                             "after_erased", "after_erased_2" }
            => PosLess(emitted[i].range.start, emitted[i].range.end)


NumSigs == [i \in 1..Len(emitted) |-> emitted[i].sig]

IsProtocolSignal(sig) == sig # "max_line_size_changed"

\* the insert, erase and replace notifications of the last step, in order
ProtocolSigs == SelectSeq(NumSigs, IsProtocolSignal)

\* the range of the notification i of the last step
SigRange(i) ==
    SelectSeq(emitted, LAMBDA e : IsProtocolSignal(e.sig))[i].range

\* the last insert or erase covered several lines of the buffer
MultiLine == seq.range.start.line < seq.range.end.line

\* C35: for an insert of several lines that further lines follow, the
\* line-numbers text model emits before_inserted, after_inserted,
\* after_inserted_2, before_replaced, after_replaced, in this order, the
\* replaced range covering all lines after the inserted ones; for an erase of
\* several lines that further lines follow it emits before_replaced,
\* after_replaced, before_erased, after_erased, after_erased_2, in this
\* order; for an insert or erase within one line it emits nothing
C35_NumbersProtocolOrder ==
    ~failed =>
        /\ (op = "insert" /\ MultiLine /\ seq.range.end.line < Len(lines) - 1)
             => /\ ProtocolSigs = << "before_inserted", "after_inserted",
                                     "after_inserted_2", "before_replaced",
                                     "after_replaced" >>
                /\ SigRange(4).start = Position(seq.range.end.line + 1, 0)
                /\ SigRange(4).end.line = Len(lines) - 1
                /\ SigRange(4).end.column = digits(Len(lines))
                /\ SigRange(5) = SigRange(4)
        /\ (op = "erase" /\ MultiLine
                         /\ seq.range.end.line < seq.old_lines_size - 1)
             => ProtocolSigs = << "before_replaced", "after_replaced",
                                  "before_erased", "after_erased",
                                  "after_erased_2" >>
        /\ (op \in { "insert", "erase" } /\ ~MultiLine)
             => emitted = << >>

\* C35 happens: two lines were erased from the middle of the buffer
C35_Witness ==
    /\ op = "erase"
    /\ seq.range.end.line - seq.range.start.line = 2
    /\ seq.range.end.line < seq.old_lines_size - 1
    /\ Len(emitted) = 5

\* C36: when an insert or erase in the buffer changes max_line_size() of the
\* line-numbers text model, that model emits max_line_size_changed
C36_MaxLineSizeChangeSignalled ==
    (op \in { "insert", "erase" } /\ ~failed
        /\ max_line_size(Num) # seq.old_max_line_size)
      => \E i \in 1..Len(emitted) : emitted[i].sig = "max_line_size_changed"


\* the last call inserted or erased lines, all of them before the cursor,
\* and the cursor's line was at or below the top of the viewport
LinesChangedBeforeCursor ==
    /\ seq.range.start.line < seq.range.end.line
    /\ seq.old_pos.line >= seq.old_pos_
    /\ \/ op = "insert" /\ PosLess(seq.range.start, seq.old_pos)
       \/ op = "erase" /\ PosLess(seq.range.end, seq.old_pos)

\* C37: when lines are inserted or erased entirely before the cursor while
\* the cursor's line is at or below the top of the viewport, the cursor is
\* as many lines below the top of the viewport after the call as before it,
\* for every visible-lines count
C37_ViewportKeepsCursorOffset ==
    (~failed /\ LinesChangedBeforeCursor)
        => pos.line - seq.pos_ = seq.old_pos.line - seq.old_pos_


\* C38: single_selection_model and simple_single_selection_model, started
\* alike and given the same set_pos_and_anchor calls and the same inserts
\* and erases of the buffer, hold the same pos, anchor_pos and selections()
\* after every call and have emitted changed during the same calls
C38_SelectionModelsAgree ==
    /\ seq.simple.failed = failed
    /\ ~failed =>
          /\ seq.simple.pos = pos
          /\ seq.simple.anchor_pos = anchor_pos
          /\ selections(seq.simple) = selections(St)
          /\ seq.simple.changed = seq.changed

\* C38 happens: an erase of a line break before the cursor moved both models,
\* which both emitted changed once, and left no selection
C38_Witness ==
    /\ op = "erase"
    /\ seq.changed = 1
    /\ seq.simple.changed = 1
    /\ seq.range.start.line < seq.range.end.line
    /\ pos = anchor_pos
    /\ PosLess(seq.range.start, pos)


\* C39: for every range r, position p and value of move_eq_pos,
\* adjust_pos_after_erase(adjust_pos_after_insert(p, r, move_eq_pos), r) is p
C39_EraseUndoesInsertAdjustment ==
    op = "insert_erase" => pos = seq.arg.start

\* C39 happens: a position at the start of a range of several lines was
\* moved to its end by the insert and back by the erase
C39_Witness ==
    /\ op = "insert_erase"
    /\ seq.move_eq_pos
    /\ seq.arg.start = seq.r.start
    /\ seq.r.start.line < seq.r.end.line
    /\ adjust_pos_after_insert(seq.arg.start, seq.r, TRUE) = seq.r.end
    /\ pos = seq.r.start

\* C40: adjust_pos_after_insert, for one range and flag, and
\* adjust_pos_after_erase, for one range, keep the order of two positions:
\* applied to the two ends of a range with start <= end they give two
\* positions with start <= end
C40_AdjustmentKeepsOrder ==
    (op \in { "insert_both", "erase_both" }
        /\ PosLeq(seq.arg.start, seq.arg.end))
      => PosLeq(pos, anchor_pos)

\* C40 happens: of two positions on the last line of an erased range, one
\* inside the range and one after it, the first is still before the second
C40_Witness ==
    /\ op = "erase_both"
    /\ PosLess(seq.r.start, seq.arg.start)
    /\ PosLess(seq.arg.start, seq.r.end)
    /\ PosLess(seq.r.end, seq.arg.end)
    /\ seq.arg.end.line = seq.r.end.line
    /\ PosLess(pos, anchor_pos)

====
